---- MODULE Spec2Model ----
(***************************************************************************)
(* Model of the graph-aware progressive retrieval and ranking engine of   *)
(* the Confluence Q&A repository:                                          *)
(*   - ConfluenceQAOrchestrator (agents/confluence_qa_orchestrator.py):    *)
(*     progressive retrieval, deduplication, the per-query controller;     *)
(*   - ConfluenceRetriever (ZZZ_embedding/retriever.py): score fusion,     *)
(*     page-context aggregation, best-context selection, the response;     *)
(*   - GraphEnricher (func-app/graph_enricher.py): the four graph lookups, *)
(*     breadcrumb and confidence boost of enrich_page_context;             *)
(*   - GraphMetrics (func-app/common/graph_metrics.py): hierarchy depth    *)
(*     and child count computed from the ParentOf edges and persisted.     *)
(*   - the hybrid retrieval of the orchestrator, the feedback edge writes  *)
(*     (agents/autogen-tools/graph_feedback.py, agents/router.py) and      *)
(*     ConfluencePageTree (utils.py).                                      *)
(* Scores of the orchestrator's search hits are integers in tenths        *)
(* (8 stands for 0.8); scores and confidences of the retriever are exact   *)
(* rationals in thousandths (750 stands for 0.75).                         *)
(***************************************************************************)
EXTENDS Integers, Sequences, FiniteSets, TLC

VARIABLES
  \* ---- progressive retrieval (_retrieve_documents_progressive)
  rpc,              \* position of the retrieval coroutine
  results,          \* the accumulated (not yet deduplicated) result list
  kwHits,           \* what the keyword phase contributed
  vecHits,          \* what the vector phase contributed
  semHits,          \* what the semantic phase contributed
  issued,           \* external calls issued by this retrieval
  failed,           \* external calls of this retrieval that raised
  returned,         \* the list handed back to the caller
  exitPath,         \* "none" | "early" | "vector" | "semantic"
  embedding_cache,  \* self.embedding_cache: TRUE when the query's key is cached
  \* ---- _deduplicate_results as a pure function
  dpc,
  dd_results,       \* its argument
  dd_unique,        \* its result
  \* ---- ConfluenceRetriever.search: fusion, aggregation, selection
  fpc,                  \* position inside search()
  vector_results,       \* answer of the vector search
  text_results,         \* answer of the text search
  combined_results,     \* result of _combine_results
  page_contexts,        \* result of _build_page_contexts
  best_context,         \* result of _select_best_context: <<>> is None
  similarity_threshold, \* config.similarity_threshold, in thousandths
  search_response,      \* the SearchResponse of search(): <<>> before it returns
  \* ---- ConfluenceQAOrchestrator.process_query (the controller)
  qpc,              \* position of process_query and of what it awaits
  query,            \* the query being processed
  response_cache,   \* self.response_cache: cache key -> response
  subquestions,     \* len(analysis.subquestions)
  batch_i,          \* loop variable i of the batch loop
  tasks,            \* sub-question index -> state of its task
  valid_results,    \* indexes of the sub-questions whose result was kept
  docs,             \* whether the atomic retrieval found documents
  verification,     \* the verifier's verdict
  response,         \* what process_query returned
  timedOut,         \* the TOTAL_TIMEOUT deadline fired for this query
  classification,   \* analysis.classification of this query, "none" before
  calls,            \* kinds of retrieval calls issued for this query
  synth_calls,      \* invocations of _synthesize_answer for this query
  synth_input,      \* the sub-results handed to _synthesize_answer
  failure_passes,   \* invocations of _handle_verification_failure
  raised_at,        \* where the exception that ended process_query arose
  expired,          \* cache keys whose entry is older than the time-to-live
  served_expired,   \* the response served from the cache was such an entry
  late_results,     \* tasks that finished after the deadline had fired
  \* ---- GraphEnricher.enrich_page_context
  epc,              \* position inside enrich_page_context
  parent,           \* the graph: page -> its parent page, 0 for a root
  client,           \* self.client is not None
  stats,            \* self.stats
  data,             \* the caller's page data
  ancestors,        \* result of _get_page_ancestors
  children,         \* result of _get_page_children
  siblings,         \* result of _get_page_siblings
  related_pages,    \* result of _get_related_pages
  lookup_failed,    \* the lookups whose query raised inside _execute_query
  enriched,         \* what enrich_page_context returned: <<>> before it returns
  \* ---- GraphEnricher._calculate_enhanced_confidence as a pure function
  bpc,
  base_confidence,  \* in hundredths
  n_ancestors,      \* len(ancestors)
  n_children,       \* len(children)
  n_related,        \* len(related_pages)
  enhanced,         \* its result, in ten-thousandths
  \* ---- GraphMetrics.run_all
  mpc,              \* position inside run_all
  edges,            \* the fetched list of (parent, child) pairs
  depth_map,        \* node -> hierarchy depth
  child_ids_map,    \* node -> list of child ids
  persisted,        \* node -> the properties written to its vertex
  write_failed,     \* the nodes whose write raised
  updates,          \* the count _persist_metrics returns
  batch_size,       \* self.batch_size
  attempts,         \* the writes attempted, in order, each with its outcome
  \* ---- _retrieve_documents_hybrid
  hpc,              \* position inside _retrieve_documents_hybrid
  h_tasks,          \* tasks, in the order they were created
  h_outcome,        \* how each search call ended
  h_done,           \* the search calls in the order they completed
  h_returned,       \* the list _retrieve_documents_hybrid returned
  \* ---- graph_feedback.upsert_edge called by QAAgent.on_new_subquestion
  gpc,              \* position inside on_new_subquestion / upsert_edge
  env_set,          \* COSMOS_GRAPH_DB_ENDPOINT and COSMOS_GRAPH_DB_KEY are set
  client_cached,    \* lru_cache of _client holds a client
  g_pair,           \* the (parent question, child question) of the call
  edge_store,       \* the DependsOn edges in the graph store
  g_warned,         \* the call logged "Failed to upsert edge"
  \* ---- utils.ConfluencePageTree
  tpc,              \* what the tree is being used for
  nodes,            \* self.nodes
  adds,             \* add_page calls so far
  current,          \* get_ancestry: current
  path,             \* get_ancestry: path
  stack,            \* get_descendants: the active traverse calls
  descendants       \* get_descendants: descendants

rvars == <<rpc, results, kwHits, vecHits, semHits, issued, failed, returned,
           exitPath, embedding_cache>>
dvars == <<dpc, dd_results, dd_unique>>
fvars == <<fpc, vector_results, text_results, combined_results, page_contexts,
           best_context, similarity_threshold, search_response>>
qvars == <<qpc, query, response_cache, subquestions, batch_i, tasks,
           valid_results, docs, verification, response, timedOut,
           classification, calls, synth_calls, synth_input, failure_passes,
           raised_at, expired, served_expired, late_results>>
evars == <<epc, parent, client, stats, data, ancestors, children, siblings,
           related_pages, lookup_failed, enriched>>
bvars == <<bpc, base_confidence, n_ancestors, n_children, n_related, enhanced>>
mvars == <<mpc, edges, depth_map, child_ids_map, persisted, write_failed,
           updates, batch_size, attempts>>
hvars == <<hpc, h_tasks, h_outcome, h_done, h_returned>>
gvars == <<gpc, env_set, client_cached, g_pair, edge_store, g_warned>>
tvars == <<tpc, nodes, adds, current, path, stack, descendants>>
vars == <<rvars, dvars, fvars, qvars, evars, bvars, mvars, hvars, gvars, tvars>>

----------------------------------------------------------------------------
(* Bounds of the model *)

\* number of documents (hit ids) in the search index
NumDocs == 12
\* longest answer of the keyword, vector and semantic search in the model
MaxKeywordHits == 11
MaxVectorHits == 6
MaxSemanticHits == 3
\* longest argument list of the deduplication function
MaxLen == 4
\* number of ids in the argument lists of the deduplication function
NumIds == 3
\* number of chunks in the retriever's vector store
NumChunks == 3
\* most sub-questions the analyser or the decomposer answers with
MaxSubquestions == 6
\* pages of the graph
NumPages == 4
\* pages a page can be linked with
MaxRelated == 2
\* largest number of ancestors, children or related pages handed to the
\* confidence boost
MaxNeighbours == 6
\* nodes of the page hierarchy and length of the fetched edge list
NumNodes == 4
MaxEdges == 3
\* largest GRAPH_METRICS_BATCH_SIZE
MaxBatchSize == 2
\* hits one search call of the hybrid retrieval answers with
MaxHybridHits == 2
\* question texts of the feedback writes
NumQuestions == 2
\* pages of a ConfluencePageTree, add_page calls, and the length up to
\* which a walk through the tree is followed
NumTreePages == 2
MaxAdds == 3
MaxWalk == 4

(* Program constants *)

\* top= of the keyword search
KeywordTop == 15
\* top= / k_nearest_neighbors of the vector search
VectorTop == 10
\* top= of the semantic search
SemanticTop == 8
\* len(results) >= 5 of the early exit
EarlyExitMinResults == 5
\* results[0].score > 0.8 of the early exit, in tenths
HighConfidenceScore == 8
\* len(results) >= 10 after the vector phase
VectorExitMinResults == 10
\* results[:10], [:15], [:20]
EarlySlice == 10
VectorSlice == 15
SemanticSlice == 20
\* SearchRequest.top_k
TopK == 10
\* MAX_SEARCH_RESULTS (default of the environment variable)
MaxSearchResults == 25
\* MAX_SUBQUESTIONS (default of the environment variable)
MAX_SUBQUESTIONS == 5
\* batch_size = 3
BatchSize == 3
\* "confidence": 0.6 of the partial timeout response, in hundredths
PartialConfidence == 60
\* quick_response.get('confidence', 0) > 0.95, in hundredths
QuickPatternMinConfidence == 95
\* best_context.confidence = min(best_context.confidence, 0.5), in thousandths
LowConfidenceCap == 500
\* EmbeddingConfig.similarity_threshold = 0.75, in thousandths
DefaultSimilarityThreshold == 750
\* graph_enricher.py: .limit(10) of the siblings query
SiblingLimit == 10
\* data.get('confidence', 0.5), in hundredths
DefaultBaseConfidence == 50
\* boost_factor = 1.0; += 0.05 * min(len(ancestors), 3); += 0.03 *
\* min(len(children), 5); += 0.02 * min(len(related_pages), 5); min(., 1.2)
UnitBoost == 100
AncestorBoost == 5
AncestorCap == 3
ChildBoost == 3
ChildCap == 5
RelatedBoost == 2
RelatedCap == 5
MaxBoostFactor == 120
\* min(enhanced_confidence, 1.0), in ten-thousandths
MaxEnhancedConfidence == 10000

----------------------------------------------------------------------------
(* Sequences helpers *)

Min2(a, b) == IF a <= b THEN a ELSE b

Max2(a, b) == IF a >= b THEN a ELSE b

\* s[:n]
Take(s, n) == SubSeq(s, 1, Min2(n, Len(s)))

IdsOf(s) == {s[i].id : i \in 1..Len(s)}

NoDuplicateIds(s) == \A i, j \in 1..Len(s) : i # j => s[i].id # s[j].id

----------------------------------------------------------------------------
(* _deduplicate_results: the loop over results with the seen_ids set *)

RECURSIVE DedupLoop(_, _, _, _)
DedupLoop(res, i, seen_ids, unique_results) ==
  IF i > Len(res) THEN unique_results
  ELSE IF res[i].id \notin seen_ids
       THEN DedupLoop(res, i + 1, seen_ids \cup {res[i].id},
                      Append(unique_results, res[i]))
       ELSE DedupLoop(res, i + 1, seen_ids, unique_results)

\* mutant: the seen-set is consulted but never filled
DeduplicateNoSeen(res) == res

\* mutant: keeps the last occurrence of each id instead of the first
DeduplicateKeepLast(res) ==
  LET keep == {i \in 1..Len(res) : \A j \in (i + 1)..Len(res) : res[j].id # res[i].id}
      F[i \in 0..Len(res)] ==
        IF i = 0 THEN <<>>
        ELSE IF i \in keep THEN Append(F[i - 1], res[i]) ELSE F[i - 1]
  IN F[Len(res)]

DeduplicateResults(res) == DedupLoop(res, 1, {}, <<>>)

----------------------------------------------------------------------------
(* The search index as the retrieval sees it.  One search call answers     *)
(* with a list of distinct documents (the id is the index key), best      *)
(* score first (the service orders by @search.score).                      *)

\* n documents starting at document `start`, scores falling from `top`
Window(start, n, top) ==
  [i \in 1..n |-> [id |-> ((start + i - 2) % NumDocs) + 1,
                   score |-> Max2(top - (i - 1), 0)]]

\* scores (tenths) of the best keyword hit: below, at and above 0.8
KeywordTopScores == {3, 8, 9}

KeywordResponses ==
  {Window(1, n, t) : n \in 0..Min2(KeywordTop, MaxKeywordHits), t \in KeywordTopScores}

VectorResponses ==
  {Window(s, n, 9) : s \in 1..NumDocs, n \in 0..Min2(VectorTop, MaxVectorHits)}

SemanticResponses ==
  {Window(s, n, 7) : s \in 1..NumDocs, n \in 0..Min2(SemanticTop, MaxSemanticHits)}

(* What one _execute_*_search call can end in: the converted hits, or an   *)
(* exception of search_client.search caught by the handler (no hits), or,  *)
(* when the handler awaits _log_thinking, an exception of the thinking-log *)
(* store raised inside the handler, which leaves the coroutine.            *)
SearchCallOutcomes(responses, handlerLogs) ==
  {[raised |-> FALSE, failed |-> FALSE, hits |-> r] : r \in responses}
  \cup {[raised |-> FALSE, failed |-> TRUE, hits |-> <<>>]}
  \cup (IF handlerLogs
        THEN {[raised |-> TRUE, failed |-> TRUE, hits |-> <<>>]}
        ELSE {})

\* _execute_keyword_search: except Exception -> await _log_thinking -> []
ExecuteKeywordSearch == SearchCallOutcomes(KeywordResponses, TRUE)

\* _execute_vector_search: except Exception -> await _log_thinking -> []
ExecuteVectorSearch == SearchCallOutcomes(VectorResponses, TRUE)

\* _execute_semantic_search: bare except -> []
ExecuteSemanticSearch == SearchCallOutcomes(SemanticResponses, FALSE)

(* _get_cached_embedding: a cache hit issues no call; otherwise the        *)
(* embedding service is called: the vector is cached and returned, or the  *)
(* handler logs and returns None, or the log call raises in the handler.   *)
GetCachedEmbedding(cached) ==
  IF cached
  THEN {[raised |-> FALSE, failed |-> FALSE, called |-> FALSE, embedding |-> TRUE]}
  ELSE {[raised |-> FALSE, failed |-> FALSE, called |-> TRUE, embedding |-> TRUE],
        [raised |-> FALSE, failed |-> TRUE, called |-> TRUE, embedding |-> FALSE],
        [raised |-> TRUE, failed |-> TRUE, called |-> TRUE, embedding |-> FALSE]}

\* mutant: the early exit asks for ten keyword hits
EarlyExitTenHits(res) ==
  Len(res) >= VectorExitMinResults /\ res[1].score > HighConfidenceScore

\* if len(results) >= 5 and results[0].score > 0.8
EarlyExit(res) ==
  Len(res) >= EarlyExitMinResults /\ res[1].score > HighConfidenceScore

\* if len(results) >= 10 (the list is not deduplicated at this point)
EnoughAfterVector(res) == Len(res) >= VectorExitMinResults

----------------------------------------------------------------------------
(* _retrieve_documents_progressive, one action per await *)

\* a step of the retrieval leaves the other components alone
RetrieveFrame == UNCHANGED <<dvars, fvars, qvars, evars, bvars, mvars,
             hvars, gvars, tvars>>

RetrieveIdle ==
  /\ rpc = "idle"
  /\ results = <<>>
  /\ kwHits = <<>>
  /\ vecHits = <<>>
  /\ semHits = <<>>
  /\ issued = {}
  /\ failed = {}
  /\ returned = <<>>
  /\ exitPath = "none"
  /\ embedding_cache = FALSE

\* a caller starts a retrieval; the embedding cache outlives the call
RetrieveStart ==
  /\ rpc \in {"idle", "returned", "raised"}
  /\ rpc' = "keyword"
  /\ results' = <<>>
  /\ kwHits' = <<>>
  /\ vecHits' = <<>>
  /\ semHits' = <<>>
  /\ issued' = {}
  /\ failed' = {}
  /\ returned' = <<>>
  /\ exitPath' = "none"
  /\ UNCHANGED embedding_cache
  /\ RetrieveFrame

\* Phase 1: results = await self._execute_keyword_search(...); early exit
KeywordPhase ==
  /\ rpc = "keyword"
  /\ \E o \in ExecuteKeywordSearch :
       /\ issued' = issued \cup {"keyword"}
       /\ failed' = IF o.failed THEN failed \cup {"keyword"} ELSE failed
       /\ IF o.raised
          THEN /\ rpc' = "raised"
               /\ UNCHANGED <<results, kwHits, returned, exitPath>>
          ELSE /\ kwHits' = o.hits
               /\ results' = o.hits
               /\ IF EarlyExit(o.hits)
                  THEN /\ returned' = Take(o.hits, EarlySlice)
                       /\ exitPath' = "early"
                       /\ rpc' = "returned"
                  ELSE /\ rpc' = "embedding"
                       /\ UNCHANGED <<returned, exitPath>>
  /\ UNCHANGED <<vecHits, semHits, embedding_cache>>
  /\ RetrieveFrame

\* Phase 2, first await: embedding = await self._get_cached_embedding(query)
EmbeddingStep ==
  /\ rpc = "embedding"
  /\ \E o \in GetCachedEmbedding(embedding_cache) :
       /\ issued' = IF o.called THEN issued \cup {"embedding"} ELSE issued
       /\ failed' = IF o.failed THEN failed \cup {"embedding"} ELSE failed
       /\ embedding_cache' = (embedding_cache \/ o.embedding)
       /\ IF o.raised
          THEN /\ rpc' = "raised"
               /\ UNCHANGED <<returned, exitPath>>
          ELSE IF o.embedding
          THEN /\ rpc' = "vector"
               /\ UNCHANGED <<returned, exitPath>>
          ELSE IF EnoughAfterVector(results)
          THEN /\ returned' = Take(DeduplicateResults(results), VectorSlice)
               /\ exitPath' = "vector"
               /\ rpc' = "returned"
          ELSE /\ rpc' = "semantic"
               /\ UNCHANGED <<returned, exitPath>>
  /\ UNCHANGED <<results, kwHits, vecHits, semHits>>
  /\ RetrieveFrame

\* Phase 2, second await: results.extend(await self._execute_vector_search(...))
VectorPhase ==
  /\ rpc = "vector"
  /\ \E o \in ExecuteVectorSearch :
       /\ issued' = issued \cup {"vector"}
       /\ failed' = IF o.failed THEN failed \cup {"vector"} ELSE failed
       /\ IF o.raised
          THEN /\ rpc' = "raised"
               /\ UNCHANGED <<results, vecHits, returned, exitPath>>
          ELSE /\ vecHits' = o.hits
               /\ results' = results \o o.hits
               /\ IF EnoughAfterVector(results \o o.hits)
                  THEN /\ returned' =
                            Take(DeduplicateResults(results \o o.hits), VectorSlice)
                       /\ exitPath' = "vector"
                       /\ rpc' = "returned"
                  ELSE /\ rpc' = "semantic"
                       /\ UNCHANGED <<returned, exitPath>>
  /\ UNCHANGED <<kwHits, semHits, embedding_cache>>
  /\ RetrieveFrame

\* Phase 3: results.extend(await self._execute_semantic_search(...)); return
SemanticPhase ==
  /\ rpc = "semantic"
  /\ \E o \in ExecuteSemanticSearch :
       /\ issued' = issued \cup {"semantic"}
       /\ failed' = IF o.failed THEN failed \cup {"semantic"} ELSE failed
       /\ semHits' = o.hits
       /\ results' = results \o o.hits
       /\ returned' = Take(DeduplicateResults(results \o o.hits), SemanticSlice)
       /\ exitPath' = "semantic"
       /\ rpc' = "returned"
  /\ UNCHANGED <<kwHits, vecHits, embedding_cache>>
  /\ RetrieveFrame

----------------------------------------------------------------------------
(* _deduplicate_results applied to arbitrary hit lists *)

DedupHit == [id : 1..NumIds, score : {1, 2}]

DedupInputs == UNION {[1..n -> DedupHit] : n \in 0..MaxLen}

DedupIdle ==
  /\ dpc = "idle"
  /\ dd_results = <<>>
  /\ dd_unique = <<>>

\* a step of the deduplication leaves the other components alone
DedupFrame == UNCHANGED <<rvars, fvars, qvars, evars, bvars, mvars,
             hvars, gvars, tvars>>

Deduplicate ==
  /\ dpc = "call"
  /\ dd_unique' = DeduplicateResults(dd_results)
  /\ dpc' = "done"
  /\ UNCHANGED dd_results
  /\ DedupFrame


----------------------------------------------------------------------------
(* ConfluenceRetriever: _combine_results, _build_page_contexts,            *)
(* _select_best_context.  A hit is [chunk_id, page_id, score]; a score is  *)
(* an integer number of thousandths; a page confidence is the exact        *)
(* rational num/den thousandths.                                           *)

Chunks == 1..NumChunks

\* the page a chunk belongs to: two chunks per page
PageOfChunk(c) == (c + 1) \div 2

\* scores a search gives a chunk
ScoreValues == {300, 800, 1000}

\* configured values of similarity_threshold (the default is 0.75)
Thresholds == {400, DefaultSimilarityThreshold}

\* list.sort(key=score, reverse=True): stable, best first
InsertByScore(sorted, x) ==
  LET k == Cardinality({j \in 1..Len(sorted) : sorted[j].score >= x.score})
  IN SubSeq(sorted, 1, k) \o <<x>> \o SubSeq(sorted, k + 1, Len(sorted))

RECURSIVE SortByScore(_)
SortByScore(s) ==
  IF s = <<>> THEN <<>>
  ELSE InsertByScore(SortByScore(SubSeq(s, 1, Len(s) - 1)), s[Len(s)])

\* the chunks of S in increasing order
RECURSIVE ChunkList(_)
ChunkList(S) ==
  IF S = {} THEN <<>>
  ELSE LET c == CHOOSE x \in S : \A y \in S : y <= x
       IN Append(ChunkList(S \ {c}), c)

\* the answer of one search that scores the chunks of DOMAIN g by g
SearchAnswer(g) ==
  LET cl == ChunkList(DOMAIN g)
  IN SortByScore([i \in 1..Len(cl) |->
                    [chunk_id |-> cl[i], page_id |-> PageOfChunk(cl[i]),
                     score |-> g[cl[i]]]])

SearchAnswers ==
  {SearchAnswer(g) : g \in UNION {[S -> ScoreValues] : S \in SUBSET Chunks}}

InAnswer(s, c) == \E i \in 1..Len(s) : s[i].chunk_id = c

ScoreIn(s, c) == s[CHOOSE i \in 1..Len(s) : s[i].chunk_id = c].score

\* result.score *= 1.2
BoostVector(score) == (score * 12) \div 10

\* combined_score = (existing.score * 0.6) + (result.score * 0.4)
CombineScores(existing, text) == (existing * 6 + text * 4) \div 10

(* _combine_results: result_map keeps insertion order (the vector hits,    *)
(* boosted, then the text hits not seen yet); a text hit already in the    *)
(* map fuses its score into the entry; sort by score, cut to top_k.        *)
CombineResults(vres, tres, top_k) ==
  LET fromVector ==
        [i \in 1..Len(vres) |->
           [vres[i] EXCEPT !.score =
              IF InAnswer(tres, vres[i].chunk_id)
              THEN CombineScores(BoostVector(vres[i].score),
                                 ScoreIn(tres, vres[i].chunk_id))
              ELSE BoostVector(vres[i].score)]]
      fromText == SelectSeq(tres, LAMBDA h : ~InAnswer(vres, h.chunk_id))
  IN Take(SortByScore(fromVector \o fromText), top_k)

\* comparison of exact rationals with positive denominators
RatLeq(a, b) == a.num * b.den <= b.num * a.den

RatEq(a, b) == a.num * b.den = b.num * a.den

\* r >= m thousandths
RatAtLeast(r, m) == r.num >= m * r.den

\* r > m thousandths
RatAbove(r, m) == r.num > m * r.den

\* min(r, m)
RatCap(r, m) == IF RatAbove(r, m) THEN [num |-> m, den |-> 1] ELSE r

RECURSIVE SumScores(_)
SumScores(s) == IF s = <<>> THEN 0 ELSE s[1].score + SumScores(Tail(s))

\* contexts.sort(key=confidence, reverse=True): stable, best first
InsertByConfidence(sorted, x) ==
  LET k == Cardinality({j \in 1..Len(sorted) :
                          RatLeq(x.confidence, sorted[j].confidence)})
  IN SubSeq(sorted, 1, k) \o <<x>> \o SubSeq(sorted, k + 1, Len(sorted))

RECURSIVE SortByConfidence(_)
SortByConfidence(s) ==
  IF s = <<>> THEN <<>>
  ELSE InsertByConfidence(SortByConfidence(SubSeq(s, 1, Len(s) - 1)), s[Len(s)])

\* page ids in the order the pages first occur in the hit list
RECURSIVE PageOrder(_, _)
PageOrder(s, seen) ==
  IF s = <<>> THEN <<>>
  ELSE IF s[1].page_id \in seen THEN PageOrder(Tail(s), seen)
       ELSE <<s[1].page_id>> \o PageOrder(Tail(s), seen \cup {s[1].page_id})

\* max(chunk_scores)
MaxChunkScore(chunks) ==
  CHOOSE m \in {chunks[i].score : i \in 1..Len(chunks)} :
    \A i \in 1..Len(chunks) : chunks[i].score <= m

\* confidence = (avg_score * 0.6) + (max_score * 0.4), avg = sum / len
PageConfidence(chunks) ==
  [num |-> 6 * SumScores(chunks) + 4 * Len(chunks) * MaxChunkScore(chunks),
   den |-> 10 * Len(chunks)]

\* the contexts in page_groups order, before contexts.sort
GroupByPage(res) ==
  LET po == PageOrder(res, {})
  IN [k \in 1..Len(po) |->
        LET chunks == SelectSeq(res, LAMBDA h : h.page_id = po[k])
        IN [page_id |-> po[k], chunks |-> chunks,
            confidence |-> PageConfidence(chunks)]]

\* mutant: the contexts are left in page_groups order
BuildPageContextsUnsorted(res) == GroupByPage(res)

\* _build_page_contexts
BuildPageContexts(res) == SortByConfidence(GroupByPage(res))

\* mutant: max instead of min in the fallback
SelectBestContextFloor(contexts, threshold) ==
  IF contexts = <<>> THEN <<>>
  ELSE IF \E i \in 1..Len(contexts) : RatAtLeast(contexts[i].confidence, threshold)
  THEN <<contexts[CHOOSE i \in 1..Len(contexts) :
            /\ RatAtLeast(contexts[i].confidence, threshold)
            /\ \A j \in 1..(i - 1) : ~RatAtLeast(contexts[j].confidence, threshold)]>>
  ELSE <<[contexts[1] EXCEPT !.confidence =
            IF RatAbove(contexts[1].confidence, LowConfidenceCap)
            THEN contexts[1].confidence
            ELSE [num |-> LowConfidenceCap, den |-> 1]]>>

(* _select_best_context: the first context, in list order, whose           *)
(* confidence is at least the threshold; failing that the first context    *)
(* with its confidence set to min(confidence, 0.5); None for no context.   *)
SelectBestContext(contexts, threshold) ==
  IF contexts = <<>> THEN <<>>
  ELSE IF \E i \in 1..Len(contexts) : RatAtLeast(contexts[i].confidence, threshold)
  THEN <<contexts[CHOOSE i \in 1..Len(contexts) :
            /\ RatAtLeast(contexts[i].confidence, threshold)
            /\ \A j \in 1..(i - 1) : ~RatAtLeast(contexts[j].confidence, threshold)]>>
  ELSE <<[contexts[1] EXCEPT !.confidence =
            RatCap(contexts[1].confidence, LowConfidenceCap)]>>

\* a step of search() leaves the other components alone
FusionFrame == UNCHANGED <<rvars, dvars, qvars, evars, bvars, mvars,
             hvars, gvars, tvars>>

FusionIdle ==
  /\ fpc = "idle"
  /\ vector_results = <<>>
  /\ text_results = <<>>
  /\ combined_results = <<>>
  /\ page_contexts = <<>>
  /\ best_context = <<>>
  /\ similarity_threshold = DefaultSimilarityThreshold
  /\ search_response = <<>>

\* combined_results = self._combine_results(vector_results, text_results, top_k)
Combine ==
  /\ fpc = "searched"
  /\ combined_results' = CombineResults(vector_results, text_results, TopK)
  /\ fpc' = "combined"
  /\ UNCHANGED <<vector_results, text_results, page_contexts, best_context,
                 similarity_threshold, search_response>>
  /\ FusionFrame

\* page_contexts = await self._build_page_contexts(combined_results)
BuildContexts ==
  /\ fpc = "combined"
  /\ page_contexts' = BuildPageContexts(combined_results)
  /\ fpc' = "grouped"
  /\ UNCHANGED <<vector_results, text_results, combined_results, best_context,
                 similarity_threshold, search_response>>
  /\ FusionFrame

\* best_context = self._select_best_context(page_contexts, request.query)
SelectBest ==
  /\ fpc = "grouped"
  /\ best_context' = SelectBestContext(page_contexts, similarity_threshold)
  /\ fpc' = "selected"
  /\ UNCHANGED <<vector_results, text_results, combined_results, page_contexts,
                 similarity_threshold, search_response>>
  /\ FusionFrame

(* _generate_response: the not-found response (confidence 0.0, fallback)   *)
(* for no context; otherwise the context's confidence as it stands, and    *)
(* fallback_used = confidence < similarity_threshold.                      *)
GenerateResponseOf(context, threshold) ==
  IF context = <<>>
  THEN [confidence |-> [num |-> 0, den |-> 1], page_id |-> 0,
        fallback_used |-> TRUE]
  ELSE [confidence |-> context[1].confidence, page_id |-> context[1].page_id,
        fallback_used |-> ~RatAtLeast(context[1].confidence, threshold)]

\* response = await self._generate_response(best_context, request); return
GenerateResponse ==
  /\ fpc = "selected"
  /\ search_response' = <<GenerateResponseOf(best_context, similarity_threshold)>>
  /\ fpc' = "responded"
  /\ UNCHANGED <<vector_results, text_results, combined_results, page_contexts,
                 best_context, similarity_threshold>>
  /\ FusionFrame

----------------------------------------------------------------------------
(* ConfluenceQAOrchestrator.process_query and what it awaits.              *)
(* Confidences of responses are integers in hundredths.  Every await of    *)
(* an external collaborator (language model, thinking-log and conversation *)
(* store, graph store, reranker, search) either completes or raises; the   *)
(* deadline of asyncio.wait_for can fire at any await of the flow.         *)

\* the raw query texts; variants differ in case and surrounding blanks
Queries ==
  {[norm |-> "how to enable sso", form |-> "plain", pattern |-> "sso"],
   [norm |-> "how to enable sso", form |-> "upper, padded", pattern |-> "sso"],
   [norm |-> "what changed in the api", form |-> "plain", pattern |-> "none"]}

CacheKeys == {q.norm : q \in Queries}

\* _get_cache_key: md5 of query.lower().strip()
GetCacheKey(q) == q.norm

\* _check_quick_patterns: the confidence of the matching pattern, 0 for None
QuickPatternConfidence(q) ==
  IF q.pattern = "sso" THEN 95 ELSE IF q.pattern = "login" THEN 90 ELSE 0

\* if quick_response and quick_response.get('confidence', 0) > 0.95
QuickPatternAccepted(q) == QuickPatternConfidence(q) > QuickPatternMinConfidence

NoResponse == [status |-> "none"]

\* how an awaited call of a collaborator ends
CallOutcomes == {"ok", "raise"}

\* verdicts of the verifier agent: json with "risk" and "confidence"
Verifications == {[risk |-> FALSE, confidence |-> 90],
                  [risk |-> TRUE, confidence |-> 40]}

NoVerification == [risk |-> FALSE, confidence |-> 0]

(* What _retrieve_documents_progressive ends in for its caller: a list     *)
(* with documents, an empty list, or an exception (a failed search or      *)
(* embedding call whose handler's _log_thinking raised).                   *)
RetrieveOutcomes == {"docs", "nodocs", "raise"}

SubIndexes == 0..(MaxSubquestions - 1)

\* len(analysis.subquestions[:self.MAX_SUBQUESTIONS])
LoopBound(n) == Min2(n, MAX_SUBQUESTIONS)

\* mutant: one batch with all the sub-questions from i on
BatchIndexesWholeList(i, n) == {k \in SubIndexes : i <= k /\ k < n}

\* indexes of batch = analysis.subquestions[i:i+batch_size]
BatchIndexes(i, n) == {k \in SubIndexes : i <= k /\ k < i + BatchSize /\ k < n}

\* the indexes of S in increasing order
RECURSIVE IndexList(_)
IndexList(S) ==
  IF S = {} THEN <<>>
  ELSE LET k == CHOOSE x \in S : \A y \in S : y <= x
       IN Append(IndexList(S \ {k}), k)

\* for i in range(0, len(subquestions[:MAX_SUBQUESTIONS]), batch_size)
LoopPc(i, n) == IF i < LoopBound(n) THEN "batch" ELSE "complex_synthesize"

\* cached_response['cached'] = True (the cached dict itself is changed)
MarkCached(r) == [cached |-> TRUE] @@ r

\* positions inside asyncio.wait_for(self._process_query_balanced(...))
BalancedPcs ==
  {"receive_query", "analyze", "clarify", "atomic_retrieve", "atomic_rerank",
   "atomic_synthesize", "atomic_verify", "atomic_finish", "complex_start",
   "batch", "gather", "complex_synthesize", "complex_verify",
   "complex_page_trees", "complex_verification_failure", "complex_finish"}

\* a step of the controller leaves the other components alone
QueryFrame == UNCHANGED <<rvars, dvars, fvars, evars, bvars, mvars,
             hvars, gvars, tvars>>

QueryIdle ==
  /\ qpc = "idle"
  /\ query = CHOOSE q \in Queries : TRUE
  /\ response_cache = [k \in CacheKeys |-> NoResponse]
  /\ subquestions = 0
  /\ batch_i = 0
  /\ tasks = [k \in SubIndexes |-> "none"]
  /\ valid_results = <<>>
  /\ docs = "none"
  /\ verification = NoVerification
  /\ response = NoResponse
  /\ timedOut = FALSE
  /\ classification = "none"
  /\ calls = {}
  /\ synth_calls = 0
  /\ synth_input = <<>>
  /\ failure_passes = 0
  /\ raised_at = "none"
  /\ expired = [k \in CacheKeys |-> FALSE]
  /\ served_expired = FALSE
  /\ late_results = {}

\* an exception leaves _process_query_balanced: process_query catches only
\* asyncio.TimeoutError, so it reaches the caller
Raises ==
  /\ qpc' = "raised"
  /\ raised_at' = qpc
  /\ response' = NoResponse
  /\ UNCHANGED <<response_cache, expired, served_expired>>

\* result returned by wait_for: self.response_cache[cache_key] = result
Completes(r) ==
  /\ qpc' = "returned"
  /\ UNCHANGED raised_at
  /\ response' = r
  /\ response_cache' = [response_cache EXCEPT ![GetCacheKey(query)] = r]
  /\ expired' = [expired EXCEPT ![GetCacheKey(query)] = FALSE]
  /\ UNCHANGED served_expired

\* the flow goes on to its next await
GoesOn(pc) ==
  /\ qpc' = pc
  /\ UNCHANGED raised_at
  /\ UNCHANGED <<response, response_cache, expired, served_expired>>

\* process_query up to its first await: the response cache lookup
ProcessQuery ==
  /\ qpc \in {"idle", "returned", "raised"}
  /\ \E q \in Queries :
       /\ query' = q
       /\ IF response_cache[GetCacheKey(q)] # NoResponse
          THEN /\ response_cache' =
                    [response_cache EXCEPT ![GetCacheKey(q)] = MarkCached(@)]
               /\ response' = MarkCached(response_cache[GetCacheKey(q)])
               /\ served_expired' = expired[GetCacheKey(q)]
               /\ qpc' = "returned"
          ELSE /\ qpc' = "receive_query"
               /\ response' = NoResponse
               /\ served_expired' = FALSE
               /\ UNCHANGED response_cache
  /\ subquestions' = 0
  /\ batch_i' = 0
  /\ tasks' = [k \in SubIndexes |-> "none"]
  /\ valid_results' = <<>>
  /\ docs' = "none"
  /\ verification' = NoVerification
  /\ timedOut' = FALSE
  /\ classification' = "none"
  /\ calls' = {}
  /\ synth_calls' = 0
  /\ synth_input' = <<>>
  /\ failure_passes' = 0
  /\ raised_at' = "none"
  /\ late_results' = {}
  /\ UNCHANGED expired
  /\ QueryFrame

(* The time-to-live of a cached response elapses.  The controller keeps    *)
(* no timestamp with an entry and nothing removes one: the passing of time *)
(* changes nothing in self.response_cache.                                 *)
TimeToLiveElapses ==
  /\ qpc \in {"returned", "raised"}
  /\ \E k \in CacheKeys :
       /\ response_cache[k] # NoResponse
       /\ ~expired[k]
       /\ expired' = [expired EXCEPT ![k] = TRUE]
  /\ UNCHANGED <<qpc, query, response_cache, subquestions, batch_i, tasks,
                 valid_results, docs, verification, response, timedOut,
                 classification, calls, synth_calls, synth_input,
                 failure_passes, raised_at, served_expired, late_results>>
  /\ QueryFrame

\* _process_query_balanced: _log_thinking(receive_query), quick patterns
ReceiveQuery ==
  /\ qpc = "receive_query"
  /\ \E log \in CallOutcomes :
       IF log = "raise" THEN Raises
       ELSE IF QuickPatternAccepted(query)
       THEN Completes([status |-> "success", answer |-> "pattern",
                       confidence |-> 95, pattern_match |-> TRUE])
       ELSE GoesOn("analyze")
  /\ UNCHANGED <<query, subquestions, batch_i, tasks, valid_results, docs,
                 verification, timedOut, classification, calls, synth_calls,
                 synth_input, failure_passes>>
  /\ UNCHANGED late_results
  /\ QueryFrame

\* what the analyser answers in "classification"
Classifications == {"NeedsClarification", "NeedsDecomposition", "Atomic"}

\* mutant: a query that needs clarification is handled as an atomic one
DispatchAlwaysRetrieves(c) ==
  IF c = "NeedsDecomposition" THEN "complex_start" ELSE "atomic_retrieve"

\* the dispatch on analysis.classification in _process_query_balanced
Dispatch(c) ==
  IF c = "NeedsClarification" THEN "clarify"
  ELSE IF c = "NeedsDecomposition" THEN "complex_start"
  ELSE "atomic_retrieve"

\* the retrieval calls one _retrieve_documents_progressive issues: the
\* keyword search, and the embedding call unless the early exit is taken
RetrievalCalls == {{"search"}, {"search", "embedding"}}

\* _analyze_query (log, analyser chat, json.loads, log) and the dispatch
AnalyzeQuery ==
  /\ qpc = "analyze"
  /\ \/ /\ Raises
        /\ UNCHANGED <<subquestions, classification>>
     \/ \E c \in Classifications :
          /\ classification' = c
          /\ GoesOn(Dispatch(c))
          /\ IF c = "NeedsDecomposition"
             THEN subquestions' \in 0..MaxSubquestions
             ELSE UNCHANGED subquestions
  /\ UNCHANGED <<query, batch_i, tasks, valid_results, docs, verification,
                 timedOut, calls, synth_calls, synth_input, failure_passes>>
  /\ UNCHANGED late_results
  /\ QueryFrame

\* _handle_clarification: log, clarifier chat, save_conversation, format
HandleClarification ==
  /\ qpc = "clarify"
  /\ \E o \in CallOutcomes :
       IF o = "raise" THEN Raises
       ELSE Completes([status |-> "needs_clarification"])
  /\ UNCHANGED <<query, subquestions, batch_i, tasks, valid_results, docs,
                 verification, timedOut, classification, calls, synth_calls,
                 synth_input, failure_passes>>
  /\ UNCHANGED late_results
  /\ QueryFrame

\* _handle_atomic_query: log, docs = await _retrieve_documents_progressive
AtomicRetrieve ==
  /\ qpc = "atomic_retrieve"
  /\ \E log \in CallOutcomes, o \in RetrieveOutcomes,
        issuedCalls \in RetrievalCalls :
       /\ IF log = "raise" \/ o = "raise"
          THEN Raises /\ UNCHANGED docs
          ELSE GoesOn("atomic_rerank") /\ docs' = o
       /\ calls' = IF log = "raise" THEN calls ELSE calls \cup issuedCalls
  /\ UNCHANGED <<query, subquestions, batch_i, tasks, valid_results,
                 verification, timedOut, classification, synth_calls,
                 synth_input, failure_passes>>
  /\ UNCHANGED late_results
  /\ QueryFrame

\* _rerank_results: [] for no docs; the reranker call, or its handler's
\* log and the score-based order; only the handler's log can raise
AtomicRerank ==
  /\ qpc = "atomic_rerank"
  /\ \E o \in CallOutcomes :
       IF o = "raise" /\ docs = "docs" THEN Raises
       ELSE GoesOn("atomic_synthesize")
  /\ calls' = IF docs = "docs" THEN calls \cup {"rerank"} ELSE calls
  /\ UNCHANGED <<query, subquestions, batch_i, tasks, valid_results, docs,
                 verification, timedOut, classification, synth_calls,
                 synth_input, failure_passes>>
  /\ UNCHANGED late_results
  /\ QueryFrame

\* answer = await self._synthesize_answer(query, sub_results, ...)
AtomicSynthesize ==
  /\ qpc = "atomic_synthesize"
  /\ \E o \in CallOutcomes :
       IF o = "raise" THEN Raises ELSE GoesOn("atomic_verify")
  /\ synth_calls' = synth_calls + 1
  /\ synth_input' = <<0>>
  /\ UNCHANGED <<query, subquestions, batch_i, tasks, valid_results, docs,
                 verification, timedOut, classification, calls,
                 failure_passes>>
  /\ UNCHANGED late_results
  /\ QueryFrame

\* verification = await self._verify_answer(answer, sub_results, ...)
AtomicVerify ==
  /\ qpc = "atomic_verify"
  /\ \/ Raises /\ UNCHANGED verification
     \/ GoesOn("atomic_finish") /\ verification' \in Verifications
  /\ UNCHANGED <<query, subquestions, batch_i, tasks, valid_results, docs,
                 timedOut, classification, calls, synth_calls,
                 synth_input, failure_passes>>
  /\ UNCHANGED late_results
  /\ QueryFrame

\* _build_page_trees, _format_thinking_process, return
AtomicFinish ==
  /\ qpc = "atomic_finish"
  /\ \E o \in CallOutcomes :
       IF o = "raise" THEN Raises
       ELSE Completes([status |-> "success", answer |-> "synthesized",
                       confidence |-> verification.confidence,
                       risk |-> verification.risk])
  /\ UNCHANGED <<query, subquestions, batch_i, tasks, valid_results, docs,
                 verification, timedOut, classification, calls, synth_calls,
                 synth_input, failure_passes>>
  /\ UNCHANGED late_results
  /\ QueryFrame

\* _handle_complex_query: log, and _decompose_query when the analysis
\* brought no sub-questions
ComplexStart ==
  /\ qpc = "complex_start"
  /\ \/ /\ Raises
        /\ UNCHANGED subquestions
     \/ /\ subquestions # 0
        /\ GoesOn(LoopPc(0, subquestions))
        /\ UNCHANGED subquestions
     \/ /\ subquestions = 0
        /\ \E n \in 0..MaxSubquestions :
             /\ subquestions' = n
             /\ GoesOn(LoopPc(0, n))
  /\ batch_i' = 0
  /\ UNCHANGED <<query, tasks, valid_results, docs, verification, timedOut,
                 classification, calls, synth_calls,
                 synth_input, failure_passes>>
  /\ UNCHANGED late_results
  /\ QueryFrame

(* One batch: for each sub-question of the batch a _log_thinking and then  *)
(* asyncio.create_task.  A log that raises ends the request with the       *)
(* tasks created before it left running.                                   *)
StartBatch ==
  /\ qpc = "batch"
  /\ LET batch == BatchIndexes(batch_i, subquestions)
     IN \E created \in 0..Cardinality(batch) :
          /\ tasks' = [k \in SubIndexes |->
                         IF k \in batch /\ k < batch_i + created
                         THEN "running" ELSE tasks[k]]
          /\ IF created = Cardinality(batch)
             THEN GoesOn("gather")
             ELSE Raises
  /\ UNCHANGED <<query, subquestions, batch_i, valid_results, docs,
                 verification, timedOut, classification, calls, synth_calls,
                 synth_input, failure_passes>>
  /\ UNCHANGED late_results
  /\ QueryFrame

\* _process_subquestion_full of one task runs to its end: plan, retrieve,
\* rerank; it returns its result or ends with an exception
SubquestionFinishes ==
  /\ qpc = "gather"
  /\ \E k \in SubIndexes, o \in {"ok", "failed"} :
       /\ tasks[k] = "running"
       /\ tasks' = [tasks EXCEPT ![k] = o]
       /\ calls' = IF o = "ok" THEN calls \cup {"search", "rerank"}
                   ELSE calls \cup {"search"}
  /\ UNCHANGED <<qpc, query, response_cache, subquestions, batch_i,
                 valid_results, docs, verification, response, timedOut,
                 classification, synth_calls, synth_input, failure_passes,
                 raised_at, expired, served_expired, late_results>>
  /\ QueryFrame

\* asyncio.gather(*batch_tasks, return_exceptions=True) completes; the
\* results are filtered, each failure is logged (the log can raise)
GatherBatch ==
  /\ qpc = "gather"
  /\ LET batch == BatchIndexes(batch_i, subquestions)
         good == {k \in batch : tasks[k] = "ok"}
     IN /\ \A k \in batch : tasks[k] \in {"ok", "failed"}
        /\ valid_results' = valid_results \o IndexList(good)
        /\ \/ /\ GoesOn(LoopPc(batch_i + BatchSize, subquestions))
              /\ batch_i' = batch_i + BatchSize
           \/ /\ good # batch
              /\ Raises
              /\ UNCHANGED batch_i
  /\ UNCHANGED <<query, subquestions, tasks, docs, verification, timedOut,
                 classification, calls, synth_calls,
                 synth_input, failure_passes>>
  /\ UNCHANGED late_results
  /\ QueryFrame

\* answer = await self._synthesize_answer(query, valid_results, ...)
ComplexSynthesize ==
  /\ qpc = "complex_synthesize"
  /\ \E o \in CallOutcomes :
       IF o = "raise" THEN Raises ELSE GoesOn("complex_verify")
  /\ synth_calls' = synth_calls + 1
  /\ synth_input' = valid_results
  /\ UNCHANGED <<query, subquestions, batch_i, tasks, valid_results, docs,
                 verification, timedOut, classification, calls,
                 failure_passes>>
  /\ UNCHANGED late_results
  /\ QueryFrame

\* verification = await self._verify_answer(answer, valid_results, ...)
ComplexVerify ==
  /\ qpc = "complex_verify"
  /\ \/ Raises /\ UNCHANGED verification
     \/ GoesOn("complex_page_trees") /\ verification' \in Verifications
  /\ UNCHANGED <<query, subquestions, batch_i, tasks, valid_results, docs,
                 timedOut, classification, calls, synth_calls,
                 synth_input, failure_passes>>
  /\ UNCHANGED late_results
  /\ QueryFrame

\* page_trees = await self._build_page_trees(valid_results)
ComplexPageTrees ==
  /\ qpc = "complex_page_trees"
  /\ \E o \in CallOutcomes :
       IF o = "raise" THEN Raises
       ELSE IF verification.risk THEN GoesOn("complex_verification_failure")
       ELSE GoesOn("complex_finish")
  /\ UNCHANGED <<query, subquestions, batch_i, tasks, valid_results, docs,
                 verification, timedOut, classification, calls, synth_calls,
                 synth_input, failure_passes>>
  /\ UNCHANGED late_results
  /\ QueryFrame

\* answer = await self._handle_verification_failure(...): breadcrumbs
ComplexVerificationFailure ==
  /\ qpc = "complex_verification_failure"
  /\ \E o \in CallOutcomes :
       IF o = "raise" THEN Raises ELSE GoesOn("complex_finish")
  /\ failure_passes' = failure_passes + 1
  /\ UNCHANGED <<query, subquestions, batch_i, tasks, valid_results, docs,
                 verification, timedOut, classification, calls, synth_calls,
                 synth_input>>
  /\ UNCHANGED late_results
  /\ QueryFrame

\* save_conversation, _format_thinking_process, return
ComplexFinish ==
  /\ qpc = "complex_finish"
  /\ \E o \in CallOutcomes :
       IF o = "raise" THEN Raises
       ELSE Completes([status |-> "success",
                       answer |-> IF verification.risk
                                  THEN "verification_fallback"
                                  ELSE "synthesized",
                       confidence |-> verification.confidence,
                       risk |-> verification.risk])
  /\ UNCHANGED <<query, subquestions, batch_i, tasks, valid_results, docs,
                 verification, timedOut, classification, calls, synth_calls,
                 synth_input, failure_passes>>
  /\ UNCHANGED late_results
  /\ QueryFrame

\* mutant: the deadline is noted and the flow it interrupts goes on
TimeoutKeepsWaiting(pc) == pc

\* except asyncio.TimeoutError: the flow wait_for waited for is cancelled
\* and process_query goes to _generate_comprehensive_fallback
TimeoutTarget(pc) == "fallback_search"

(* asyncio.wait_for's deadline fires while _process_query_balanced waits.  *)
(* In gather the cancellation reaches the tasks gather waits for.  In the  *)
(* loop that starts a batch it reaches _handle_complex_query at one of the *)
(* _log_thinking awaits: the tasks created before it are referenced by no  *)
(* one and run on.                                                         *)
GlobalTimeout ==
  /\ qpc \in BalancedPcs
  /\ timedOut' = TRUE
  /\ IF qpc = "batch"
     THEN LET batch == BatchIndexes(batch_i, subquestions)
          IN \E created \in 0..(Cardinality(batch) - 1) :
               tasks' = [k \in SubIndexes |->
                           IF k \in batch /\ k < batch_i + created
                           THEN "running" ELSE tasks[k]]
     ELSE tasks' = [k \in SubIndexes |->
                      IF tasks[k] = "running" THEN "cancelled" ELSE tasks[k]]
  /\ GoesOn(TimeoutTarget(qpc))
  /\ UNCHANGED <<query, subquestions, batch_i, valid_results, docs,
                 verification, classification, calls, synth_calls,
                 synth_input, failure_passes>>
  /\ UNCHANGED late_results
  /\ QueryFrame

(* A task no one waits for any more (its creator was cancelled by the      *)
(* deadline, or left by an exception, before gather) runs to its end: its  *)
(* result stays in the task object.                                        *)
AbandonedSubquestionFinishes ==
  /\ qpc \notin {"batch", "gather"}
  /\ \E k \in SubIndexes, o \in {"ok", "failed"} :
       /\ tasks[k] = "running"
       /\ tasks' = [tasks EXCEPT ![k] = o]
       /\ calls' = IF o = "ok" THEN calls \cup {"search", "rerank"}
                   ELSE calls \cup {"search"}
       /\ late_results' = IF timedOut THEN late_results \cup {k}
                          ELSE late_results
  /\ UNCHANGED <<qpc, query, response_cache, subquestions, batch_i,
                 valid_results, docs, verification, response, timedOut,
                 classification, synth_calls, synth_input, failure_passes,
                 raised_at, expired, served_expired>>
  /\ QueryFrame

\* how wait_for(self._execute_keyword_search(query, None), timeout=2.0)
\* ends: as the search does, or with the 2 s deadline (asyncio.TimeoutError)
FallbackSearchOutcomes ==
  {[o EXCEPT !.hits = IF o.hits = <<>> THEN "empty" ELSE "hits"] :
     o \in ExecuteKeywordSearch}
  \cup {[raised |-> TRUE, failed |-> FALSE, hits |-> "empty"]}

\* _generate_comprehensive_fallback: the keyword search inside try
FallbackSearch ==
  /\ qpc = "fallback_search"
  /\ \E o \in FallbackSearchOutcomes :
       IF ~o.raised /\ o.hits = "hits"
       THEN GoesOn("fallback_partial")
       ELSE GoesOn("fallback_generic")
  /\ calls' = calls \cup {"search"}
  /\ UNCHANGED <<query, subquestions, batch_i, tasks, valid_results, docs,
                 verification, timedOut, classification, synth_calls,
                 synth_input, failure_passes>>
  /\ UNCHANGED late_results
  /\ QueryFrame

\* the partial response; its _format_thinking_process is inside the try,
\* whose bare except passes on to the complete fallback
FallbackPartial ==
  /\ qpc = "fallback_partial"
  /\ \E o \in CallOutcomes :
       IF o = "raise" THEN GoesOn("fallback_generic")
       ELSE /\ qpc' = "returned"
            /\ response' = [status |-> "partial", answer |-> "partial",
                            confidence |-> PartialConfidence,
                            timeout |-> TRUE, partial_results |-> TRUE]
            /\ UNCHANGED <<response_cache, raised_at, expired,
                           served_expired>>
  /\ UNCHANGED <<query, subquestions, batch_i, tasks, valid_results, docs,
                 verification, timedOut, classification, calls, synth_calls,
                 synth_input, failure_passes>>
  /\ UNCHANGED late_results
  /\ QueryFrame

\* the complete fallback; its _format_thinking_process is outside any try
FallbackGeneric ==
  /\ qpc = "fallback_generic"
  /\ \E o \in CallOutcomes :
       IF o = "raise" THEN Raises
       ELSE /\ qpc' = "returned"
            /\ response' = [status |-> "timeout", answer |-> "generic",
                            confidence |-> 0, timeout |-> TRUE]
            /\ UNCHANGED <<response_cache, raised_at, expired,
                           served_expired>>
  /\ UNCHANGED <<query, subquestions, batch_i, tasks, valid_results, docs,
                 verification, timedOut, classification, calls, synth_calls,
                 synth_input, failure_passes>>
  /\ UNCHANGED late_results
  /\ QueryFrame

----------------------------------------------------------------------------
(* GraphEnricher (func-app/graph_enricher.py).  The graph gives every page *)
(* at most one parent; the ChildOf edge of a page leads to its parent and  *)
(* the ParentOf edges of a page lead to its children.  Page data are       *)
(* dictionaries: functions whose domain is the set of keys present.        *)
(* Confidences are integers in hundredths, the boost factor too, and the   *)
(* enhanced confidence base * boost is in ten-thousandths.                 *)

Pages == 1..NumPages

\* the title stored on the vertex of page p
TitleOf(p) == <<"title", p>>

\* dict.get(key, default)
DataGet(d, key, default) == IF key \in DOMAIN d THEN d[key] ELSE default

\* the ids of S as a list, in increasing order
RECURSIVE PageList(_)
PageList(S) ==
  IF S = {} THEN <<>>
  ELSE LET p == CHOOSE x \in S : \A y \in S : y <= x
       IN Append(PageList(S \ {p}), p)

RECURSIVE ReverseSeq(_)
ReverseSeq(s) == IF s = <<>> THEN <<>> ELSE Append(ReverseSeq(Tail(s)), s[1])

\* the graphs: a page's parent has a smaller id, which keeps them acyclic
Graphs == {g \in [Pages -> 0..NumPages] : \A p \in Pages : g[p] < p}

(* g.V(page).repeat(out('ChildOf')).until(not(out('ChildOf'))).path():     *)
(* the path walked from the page up to the root, the page first; no path   *)
(* at all for a page without parent.                                       *)
RECURSIVE PathToRoot(_)
PathToRoot(p) ==
  IF parent[p] = 0 THEN <<p>> ELSE <<p>> \o PathToRoot(parent[p])

AncestorQueryResult(p) == IF parent[p] = 0 THEN <<>> ELSE <<PathToRoot(p)>>

\* g.V(page).out('ParentOf')
ChildrenQueryResult(p) == PageList({c \in Pages : parent[c] = p})

\* g.V(page).out('ChildOf').out('ParentOf').where(neq(page)).limit(10)
SiblingsQueryResult(p) ==
  IF parent[p] = 0 THEN <<>>
  ELSE Take(PageList({c \in Pages : parent[c] = parent[p] /\ c # p}),
            SiblingLimit)

\* the pages linked with page p: any set of up to MaxRelated other pages
RelatedQueryResults(p) ==
  {PageList(S) : S \in {T \in SUBSET (Pages \ {p}) : Cardinality(T) <= MaxRelated}}

(* _execute_query: [] without touching stats when there is no client;      *)
(* otherwise the query either answers (queries += 1) or raises, which is   *)
(* caught here (errors += 1, [] returned).  _is_available() makes each     *)
(* lookup return [] before the query when there is no client.             *)
QueryOutcomes == IF client THEN {"ok", "raise"} ELSE {"unavailable"}

StatsAfterQuery(st, outcome) ==
  CASE outcome = "ok" -> [st EXCEPT !.queries = @ + 1]
    [] outcome = "raise" -> [st EXCEPT !.errors = @ + 1]
    [] OTHER -> st

FailedAfterQuery(lookup, outcome) ==
  IF outcome = "raise" THEN lookup_failed \cup {lookup} ELSE lookup_failed

(* _get_page_ancestors on the query's result: path_data = result[0];       *)
(* reversed(path_data[:-1]).                                               *)
AncestorsFromResult(result) ==
  IF result = <<>> THEN <<>>
  ELSE ReverseSeq(SubSeq(result[1], 1, Len(result[1]) - 1))

\* boost_factor before and after min(boost_factor, 1.2), in hundredths
BoostFactorUncapped(na, nc, nr) ==
  UnitBoost + AncestorBoost * Min2(na, AncestorCap)
            + ChildBoost * Min2(nc, ChildCap)
            + RelatedBoost * Min2(nr, RelatedCap)

BoostFactor(na, nc, nr) == Min2(BoostFactorUncapped(na, nc, nr), MaxBoostFactor)

\* mutant: the final min(enhanced_confidence, 1.0) is dropped
CalculateEnhancedConfidenceNoCap(base, na, nc, nr) ==
  base * BoostFactor(na, nc, nr)

\* _calculate_enhanced_confidence, in ten-thousandths
CalculateEnhancedConfidence(base, na, nc, nr) ==
  Min2(base * BoostFactor(na, nc, nr), MaxEnhancedConfidence)

\* breadcrumb = [ancestor title ...]; the data's title appended when truthy
Breadcrumb(d, anc) ==
  [i \in 1..Len(anc) |-> TitleOf(anc[i])]
    \o (IF DataGet(d, "title", <<>>) # <<>> THEN <<d["title"]>> ELSE <<>>)

\* the graph-derived fields of the enriched dictionary
GraphFields(d, anc, ch, sib, rel) ==
  [hierarchy_depth |-> Len(anc),
   breadcrumb |-> Breadcrumb(d, anc),
   parent_page_id |-> IF anc # <<>> THEN anc[Len(anc)] ELSE 0,
   parent_page_title |-> IF anc # <<>> THEN TitleOf(anc[Len(anc)]) ELSE <<>>,
   has_children |-> Len(ch) > 0,
   child_count |-> Len(ch),
   sibling_count |-> Len(sib),
   related_page_count |-> Len(rel),
   graph_centrality_score |->
     CalculateEnhancedConfidence(DataGet(d, "confidence", DefaultBaseConfidence),
                                 Len(anc), Len(ch), Len(rel))]

\* a confidence entry that is not a number (None)
NoneValue == 0 - 1

\* the page data a caller hands in
PageData ==
  UNION {{[page_id |-> p],
          [page_id |-> p, title |-> TitleOf(p)],
          [page_id |-> p, title |-> TitleOf(p), confidence |-> 90],
          [page_id |-> p, title |-> TitleOf(p), confidence |-> NoneValue]}
         : p \in Pages}

\* a step of the enricher leaves the other components alone
EnrichFrame == UNCHANGED <<rvars, dvars, fvars, qvars, bvars, mvars,
             hvars, gvars, tvars>>

\* GraphEnricher.__init__ with a connected client, before any call
EnrichIdle ==
  /\ epc = "idle"
  /\ parent = [p \in Pages |-> 0]
  /\ client = TRUE
  /\ stats = [queries |-> 0, enriched |-> 0, errors |-> 0]
  /\ data = [page_id |-> 1]
  /\ ancestors = <<>>
  /\ children = <<>>
  /\ siblings = <<>>
  /\ related_pages = <<>>
  /\ lookup_failed = {}
  /\ enriched = <<>>

\* enrich_page_context is called with some page data
EnrichStart ==
  /\ epc = "idle"
  /\ \E d \in PageData : data' = d
  /\ epc' = "ancestors"
  /\ UNCHANGED <<parent, client, stats, ancestors, children, siblings,
                 related_pages, lookup_failed, enriched>>
  /\ EnrichFrame

\* ancestors = await self._get_page_ancestors(page_id)
GetPageAncestors ==
  /\ epc = "ancestors"
  /\ \E outcome \in QueryOutcomes :
       /\ ancestors' = IF outcome = "ok"
                       THEN AncestorsFromResult(AncestorQueryResult(data.page_id))
                       ELSE <<>>
       /\ stats' = StatsAfterQuery(stats, outcome)
       /\ lookup_failed' = FailedAfterQuery("ancestors", outcome)
  /\ epc' = "children"
  /\ UNCHANGED <<parent, client, data, children, siblings, related_pages,
                 enriched>>
  /\ EnrichFrame

\* children = await self._get_page_children(page_id)
GetPageChildren ==
  /\ epc = "children"
  /\ \E outcome \in QueryOutcomes :
       /\ children' = IF outcome = "ok"
                      THEN ChildrenQueryResult(data.page_id) ELSE <<>>
       /\ stats' = StatsAfterQuery(stats, outcome)
       /\ lookup_failed' = FailedAfterQuery("children", outcome)
  /\ epc' = "siblings"
  /\ UNCHANGED <<parent, client, data, ancestors, siblings, related_pages,
                 enriched>>
  /\ EnrichFrame

\* siblings = await self._get_page_siblings(page_id)
GetPageSiblings ==
  /\ epc = "siblings"
  /\ \E outcome \in QueryOutcomes :
       /\ siblings' = IF outcome = "ok"
                      THEN SiblingsQueryResult(data.page_id) ELSE <<>>
       /\ stats' = StatsAfterQuery(stats, outcome)
       /\ lookup_failed' = FailedAfterQuery("siblings", outcome)
  /\ epc' = "related"
  /\ UNCHANGED <<parent, client, data, ancestors, children, related_pages,
                 enriched>>
  /\ EnrichFrame

\* related_pages = await self._get_related_pages(page_id)
GetRelatedPages ==
  /\ epc = "related"
  /\ \E outcome \in QueryOutcomes :
       /\ \E answer \in RelatedQueryResults(data.page_id) :
            related_pages' = IF outcome = "ok" THEN answer ELSE <<>>
       /\ stats' = StatsAfterQuery(stats, outcome)
       /\ lookup_failed' = FailedAfterQuery("related", outcome)
  /\ epc' = "build"
  /\ UNCHANGED <<parent, client, data, ancestors, children, siblings, enriched>>
  /\ EnrichFrame

(* The rest of the try block: breadcrumb, depth, centrality score and the  *)
(* enriched dictionary {**data, graph fields}; stats['enriched'] += 1.     *)
(* A confidence that is not a number makes base_confidence * boost_factor  *)
(* raise; the except returns data and counts an error.                     *)
EnrichBuild ==
  /\ epc = "build"
  /\ IF DataGet(data, "confidence", DefaultBaseConfidence) = NoneValue
     THEN /\ enriched' = <<data>>
          /\ stats' = [stats EXCEPT !.errors = @ + 1]
     ELSE /\ enriched' = <<GraphFields(data, ancestors, children, siblings,
                                       related_pages) @@ data>>
          /\ stats' = [stats EXCEPT !.enriched = @ + 1]
  /\ epc' = "returned"
  /\ UNCHANGED <<parent, client, data, ancestors, children, siblings,
                 related_pages, lookup_failed>>
  /\ EnrichFrame

\* _calculate_enhanced_confidence applied to arbitrary arguments
BoostFrame == UNCHANGED <<rvars, dvars, fvars, qvars, evars, mvars,
             hvars, gvars, tvars>>

BoostIdle ==
  /\ bpc = "idle"
  /\ base_confidence = 0
  /\ n_ancestors = 0
  /\ n_children = 0
  /\ n_related = 0
  /\ enhanced = 0

CalculateConfidence ==
  /\ bpc = "call"
  /\ enhanced' = CalculateEnhancedConfidence(base_confidence, n_ancestors,
                                             n_children, n_related)
  /\ bpc' = "done"
  /\ UNCHANGED <<base_confidence, n_ancestors, n_children, n_related>>
  /\ BoostFrame

----------------------------------------------------------------------------
(* GraphMetrics (func-app/common/graph_metrics.py).  The fetched ParentOf  *)
(* edges are a list of <<parent, child>> pairs; the graph store returns    *)
(* one entry per stored edge, so a pair stored twice is listed twice.      *)

Nodes == 1..NumNodes

EdgePairs == {e \in Nodes \X Nodes : e[1] # e[2]}

\* the place of a pair in the order the graph store lists the edges in
PairRank(e) == (e[1] - 1) * NumNodes + e[2]

\* the lists g.E().hasLabel('ParentOf') can return, in the store's order
EdgeLists ==
  {es \in UNION {[1..n -> EdgePairs] : n \in 0..MaxEdges} :
     \A i \in 1..Len(es) : \A j \in 1..Len(es) :
       i < j => PairRank(es[i]) <= PairRank(es[j])}

\* self.batch_size = int(os.getenv("GRAPH_METRICS_BATCH_SIZE", 100))
BatchSizes == 1..MaxBatchSize

\* G.add_edges_from(edges): the edge set and G.nodes
EdgeSet(es) == {es[i] : i \in 1..Len(es)}

GraphNodes(es) == {es[i][1] : i \in 1..Len(es)} \cup {es[i][2] : i \in 1..Len(es)}

\* roots = [n for n in G.nodes if n not in children]
Roots(es) == {n \in GraphNodes(es) : \A i \in 1..Len(es) : es[i][2] # n}

(* nx.single_source_shortest_path_length(G, root): breadth-first levels;   *)
(* the result maps every node reachable from root to its distance.         *)
RECURSIVE ShortestLevels(_, _, _, _)
ShortestLevels(E, frontier, d, acc) ==
  LET next == {e[2] : e \in {x \in E : x[1] \in frontier}} \ DOMAIN acc
  IN IF next = {} THEN acc
     ELSE ShortestLevels(E, next, d + 1, acc @@ [n \in next |-> d + 1])

SingleSourceShortestPathLength(es, root) ==
  ShortestLevels(EdgeSet(es), {root}, 0, [n \in {root} |-> 0])

\* the largest element of a non-empty set of naturals
MaxOf(S) == CHOOSE m \in S : \A x \in S : x <= m

\* the smallest element of a non-empty set of naturals
MinOf(S) == CHOOSE m \in S : \A x \in S : m <= x

\* mutant: a node keeps the distance from the nearest root that reaches it
DepthMapNearestRoot(es) ==
  [n \in GraphNodes(es) |->
     LET ds == {SingleSourceShortestPathLength(es, r)[n] :
                  r \in {x \in Roots(es) :
                           n \in DOMAIN SingleSourceShortestPathLength(es, x)}}
     IN IF ds = {} THEN 0 ELSE MinOf(ds)]

(* depth_map: 0 for every node, then for each root and each node the root  *)
(* reaches, max(depth_map[node], shortest distance from that root).        *)
DepthMap(es) ==
  [n \in GraphNodes(es) |->
     MaxOf({0} \cup {SingleSourceShortestPathLength(es, r)[n] :
                       r \in {x \in Roots(es) :
                                n \in DOMAIN SingleSourceShortestPathLength(es, x)}})]

\* the children of parent n, one entry per listed edge, in list order
RECURSIVE ChildIdsOf(_, _)
ChildIdsOf(es, n) ==
  IF es = <<>> THEN <<>>
  ELSE (IF es[1][1] = n THEN <<es[1][2]>> ELSE <<>>) \o ChildIdsOf(Tail(es), n)

\* child_ids_map: setdefault(parent, []).append(child); [] for the others
ChildIdsMap(es) == [n \in GraphNodes(es) |-> ChildIdsOf(es, n)]

\* the properties one write statement sets on vertex pid
MetricsStatement(dm, cm, pid) ==
  [hierarchy_depth |-> dm[pid],
   children_ids |-> DataGet(cm, pid, <<>>),
   child_count |-> Len(DataGet(cm, pid, <<>>))]

\* G.nodes in the order add_edges_from met them: depth_map.items()
RECURSIVE NodeOrder(_, _)
NodeOrder(es, seen) ==
  IF es = <<>> THEN seen
  ELSE LET withParent == IF \E i \in 1..Len(seen) : seen[i] = es[1][1]
                         THEN seen ELSE Append(seen, es[1][1])
           withChild == IF \E i \in 1..Len(withParent) : withParent[i] = es[1][2]
                        THEN withParent ELSE Append(withParent, es[1][2])
       IN NodeOrder(Tail(es), withChild)

\* mutant: the first write of a batch that raises ends the batch
FlushBatchUntilFailure(batch, F) ==
  LET bad == {i \in 1..Len(batch) : batch[i] \in F}
      last == IF bad = {} THEN Len(batch) ELSE MinOf(bad)
  IN [i \in 1..last |-> [pid |-> batch[i], ok |-> batch[i] \notin F]]

(* for query in batch: try: submit(query); updates += 1; except: log.      *)
(* The writes of one batch in order: the vertex and whether it was written *)
(* (the writes of F raise).                                                *)
FlushBatch(batch, F) ==
  [i \in 1..Len(batch) |-> [pid |-> batch[i], ok |-> batch[i] \notin F]]

(* the loop of _persist_metrics over depth_map.items(): a statement is     *)
(* appended to batch, a batch of batch_size statements is executed and     *)
(* emptied, and what is left after the loop is executed the same way       *)
RECURSIVE PersistLoop(_, _, _, _, _)
PersistLoop(pids, batch, size, F, log) ==
  IF pids = <<>>
  THEN IF batch # <<>> THEN log \o FlushBatch(batch, F) ELSE log
  ELSE LET b == Append(batch, Head(pids))
       IN IF Len(b) = size
          THEN PersistLoop(Tail(pids), <<>>, size, F, log \o FlushBatch(b, F))
          ELSE PersistLoop(Tail(pids), b, size, F, log)

\* the writes that succeeded (updates += 1)
Succeeded(log) == {log[i].pid : i \in {j \in 1..Len(log) : log[j].ok}}

\* a step of the metrics engine leaves the other components alone
MetricsFrame == UNCHANGED <<rvars, dvars, fvars, qvars, evars, bvars,
             hvars, gvars, tvars>>

MetricsIdle ==
  /\ mpc = "idle"
  /\ edges = <<>>
  /\ depth_map = <<>>
  /\ child_ids_map = <<>>
  /\ persisted = <<>>
  /\ write_failed = {}
  /\ updates = 0
  /\ batch_size = 1
  /\ attempts = <<>>

\* depth_map, child_map = self._compute_hierarchy_metrics(edges)
ComputeHierarchyMetrics ==
  /\ mpc = "fetched"
  /\ depth_map' = DepthMap(edges)
  /\ child_ids_map' = ChildIdsMap(edges)
  /\ mpc' = "computed"
  /\ UNCHANGED <<edges, persisted, write_failed, updates, batch_size,
                 attempts>>
  /\ MetricsFrame

(* _persist_metrics: the batched writes; the writes of the vertices of F   *)
(* raise.  A write that raises is logged and skipped; updates counts the   *)
(* writes that succeeded and is what run_all returns as pages_updated.     *)
PersistMetrics ==
  /\ mpc = "computed"
  /\ \E F \in SUBSET DOMAIN depth_map :
       LET log == PersistLoop(NodeOrder(edges, <<>>), <<>>, batch_size, F, <<>>)
       IN /\ write_failed' = F
          /\ attempts' = log
          /\ persisted' = [pid \in Succeeded(log) |->
                             MetricsStatement(depth_map, child_ids_map, pid)]
          /\ updates' = Cardinality({i \in 1..Len(log) : log[i].ok})
  /\ mpc' = "persisted"
  /\ UNCHANGED <<edges, depth_map, child_ids_map, batch_size>>
  /\ MetricsFrame

----------------------------------------------------------------------------
(* _retrieve_documents_hybrid: the embedding, then the vector, keyword and *)
(* semantic searches as tasks of their own, asyncio.gather over them, the  *)
(* merge of the answers and _deduplicate_results.  The tasks complete in   *)
(* any order.                                                              *)

SearchNames == {"vector", "keyword", "semantic"}

\* answers of at most MaxHybridHits documents from the head of the index
HybridHits(responses) ==
  {r \in responses : Len(r) <= MaxHybridHits /\ (r = <<>> \/ r[1].id <= 2)}

\* how the search call of a task can end
HybridOutcomes(name) ==
  IF name = "vector"
  THEN SearchCallOutcomes(HybridHits(VectorResponses), TRUE)
  ELSE IF name = "keyword"
  THEN SearchCallOutcomes(HybridHits(KeywordResponses), TRUE)
  ELSE SearchCallOutcomes(HybridHits(SemanticResponses), FALSE)

\* the outcome held for a call that was not issued or has not completed
NotRun == [raised |-> FALSE, failed |-> TRUE, hits |-> <<>>]

\* tasks: the vector task only if embedding, then keyword, then semantic
HybridTasks(embedding) ==
  (IF embedding THEN <<"vector">> ELSE <<>>) \o <<"keyword", "semantic">>

\* mutant: the answers are merged in the order the calls completed
GatherInCompletionOrder(created, completed) == completed

\* results = await asyncio.gather(*tasks, return_exceptions=True): one
\* entry per task, in the order of the tasks handed in
GatherOrder(created, completed) == created

(* for result in results: if isinstance(result, list):                     *)
(* all_results.extend(result).  The entry of a task that ended with an     *)
(* exception is the exception and is passed over; a call whose handler     *)
(* caught the failure answered [].                                         *)
RECURSIVE MergeResults(_, _)
MergeResults(order, outcome) ==
  IF order = <<>> THEN <<>>
  ELSE (IF outcome[Head(order)].raised THEN <<>>
        ELSE outcome[Head(order)].hits)
       \o MergeResults(Tail(order), outcome)

\* a step of the hybrid retrieval leaves the other components alone
HybridFrame == UNCHANGED <<rvars, dvars, fvars, qvars, evars, bvars, mvars,
                           gvars, tvars>>

HybridIdle ==
  /\ hpc = "idle"
  /\ h_tasks = <<>>
  /\ h_outcome = [n \in SearchNames |-> NotRun]
  /\ h_done = <<>>
  /\ h_returned = <<>>

\* embedding = await self._get_cached_embedding(query); create_task x 2 or 3
HybridStart ==
  /\ hpc = "idle"
  /\ \E cached \in BOOLEAN : \E e \in GetCachedEmbedding(cached) :
       IF e.raised
       THEN hpc' = "raised" /\ UNCHANGED h_tasks
       ELSE hpc' = "searching" /\ h_tasks' = HybridTasks(e.embedding)
  /\ UNCHANGED <<h_outcome, h_done, h_returned>>
  /\ HybridFrame

\* one of the tasks gather waits for runs to its end
SearchCompletes ==
  /\ hpc = "searching"
  /\ \E i \in 1..Len(h_tasks) :
       /\ \A j \in 1..Len(h_done) : h_done[j] # h_tasks[i]
       /\ \E o \in HybridOutcomes(h_tasks[i]) :
            h_outcome' = [h_outcome EXCEPT ![h_tasks[i]] = o]
       /\ h_done' = Append(h_done, h_tasks[i])
  /\ UNCHANGED <<hpc, h_tasks, h_returned>>
  /\ HybridFrame

(* gather returns; merge, _deduplicate_results, the content fetch (which   *)
(* changes no membership and no order: get_page_content answers None when  *)
(* it fails) and return unique_results[:self.MAX_SEARCH_RESULTS]           *)
HybridGather ==
  /\ hpc = "searching"
  /\ Len(h_done) = Len(h_tasks)
  /\ h_returned' =
       Take(DeduplicateResults(MergeResults(GatherOrder(h_tasks, h_done),
                                            h_outcome)),
            MaxSearchResults)
  /\ hpc' = "returned"
  /\ UNCHANGED <<h_tasks, h_outcome, h_done>>
  /\ HybridFrame

----------------------------------------------------------------------------
(* graph_feedback.upsert_edge as QAAgent.on_new_subquestion calls it.      *)

Questions == 1..NumQuestions

\* _hash: the md5 of the text, cut to 20 hex digits
Hash(q) == <<"md5", q>>

\* how the submitted traversal ends
SubmitOutcomes == {"ok", "unreachable", "rejected"}

\* a step of the feedback write leaves the other components alone
FeedbackFrame == UNCHANGED <<rvars, dvars, fvars, qvars, evars, bvars, mvars,
                             hvars, tvars>>

FeedbackIdle ==
  /\ gpc = "idle"
  /\ env_set = TRUE
  /\ client_cached = FALSE
  /\ g_pair = <<Hash(1), Hash(1)>>
  /\ edge_store = {}
  /\ g_warned = FALSE

\* on_new_subquestion: upsert_edge(parent_question, child_question); _hash
OnNewSubquestion ==
  /\ gpc \in {"idle", "returned", "raised"}
  /\ \E src \in Questions, dst \in Questions :
       g_pair' = <<Hash(src), Hash(dst)>>
  /\ gpc' = "client"
  /\ g_warned' = FALSE
  /\ UNCHANGED <<env_set, client_cached, edge_store>>
  /\ FeedbackFrame

(* g = _client(), before the try: the cached client, or RuntimeError when  *)
(* the endpoint or the key is not set (lru_cache keeps no exception), or a *)
(* new client that is cached.                                              *)
GetClient ==
  /\ gpc = "client"
  /\ IF client_cached THEN gpc' = "submit" /\ UNCHANGED client_cached
     ELSE IF ~env_set THEN gpc' = "raised" /\ UNCHANGED client_cached
     ELSE gpc' = "submit" /\ client_cached' = TRUE
  /\ UNCHANGED <<env_set, g_pair, edge_store, g_warned>>
  /\ FeedbackFrame

\* try: g.submitAsync(...).result() except Exception: log.warning(...)
SubmitEdge ==
  /\ gpc = "submit"
  /\ \E o \in SubmitOutcomes :
       IF o = "ok"
       THEN edge_store' = edge_store \cup {g_pair} /\ UNCHANGED g_warned
       ELSE g_warned' = TRUE /\ UNCHANGED edge_store
  /\ gpc' = "returned"
  /\ UNCHANGED <<env_set, client_cached, g_pair>>
  /\ FeedbackFrame

----------------------------------------------------------------------------
(* utils.ConfluencePageTree: add_page, get_ancestry and get_descendants.   *)
(* A page id is 1..NumTreePages, the parent_id None is 0.  The loop of     *)
(* get_ancestry and the recursion of get_descendants are followed step by  *)
(* step, up to MaxWalk entries of path and MaxWalk active calls.           *)

TreePages == 1..NumTreePages

\* the entry of a page that is not in self.nodes
NoNode == [present |-> FALSE, parent_id |-> 0, children |-> <<>>]

\* page_id in self.nodes
InNodes(ns, p) == p # 0 /\ ns[p].present

\* the pages stored
StoredPages(ns) == {p \in TreePages : ns[p].present}

(* add_page: a new entry for an unknown page (an existing entry keeps its  *)
(* parent_id); then, if the parent is stored, the page is appended to the  *)
(* parent's children unless it is there already.                           *)
AddPageTo(ns, page_id, parent_id) ==
  LET n1 == IF ~ns[page_id].present
            THEN [ns EXCEPT ![page_id] = [present |-> TRUE,
                                          parent_id |-> parent_id,
                                          children |-> <<>>]]
            ELSE ns
  IN IF InNodes(n1, parent_id)
        /\ \A i \in 1..Len(n1[parent_id].children) :
             n1[parent_id].children[i] # page_id
     THEN [n1 EXCEPT ![parent_id].children = Append(@, page_id)]
     ELSE n1

\* a step of the page tree leaves the other components alone
TreeFrame == UNCHANGED <<rvars, dvars, fvars, qvars, evars, bvars, mvars,
                         hvars, gvars>>

TreeIdle ==
  /\ tpc = "build"
  /\ nodes = [p \in TreePages |-> NoNode]
  /\ adds = 0
  /\ current = 0
  /\ path = <<>>
  /\ stack = <<>>
  /\ descendants = <<>>

AddPage ==
  /\ tpc = "build"
  /\ adds < MaxAdds
  /\ \E page_id \in TreePages, parent_id \in 0..NumTreePages :
       nodes' = AddPageTo(nodes, page_id, parent_id)
  /\ adds' = adds + 1
  /\ UNCHANGED <<tpc, current, path, stack, descendants>>
  /\ TreeFrame

\* get_ancestry: path = []; current = page_id
GetAncestry ==
  /\ tpc = "build"
  /\ \E page_id \in TreePages : current' = page_id
  /\ path' = <<>>
  /\ tpc' = "ancestry"
  /\ UNCHANGED <<nodes, adds, stack, descendants>>
  /\ TreeFrame

\* while current and current in self.nodes: path.append(current);
\* current = self.nodes[current].get('parent_id'); then return reversed
AncestryStep ==
  /\ tpc = "ancestry"
  /\ IF InNodes(nodes, current)
     THEN /\ Len(path) < MaxWalk
          /\ path' = Append(path, current)
          /\ current' = nodes[current].parent_id
          /\ UNCHANGED tpc
     ELSE /\ path' = ReverseSeq(path)
          /\ tpc' = "ancestry_returned"
          /\ UNCHANGED current
  /\ UNCHANGED <<nodes, adds, stack, descendants>>
  /\ TreeFrame

\* get_descendants: descendants = []; traverse(page_id)
GetDescendants ==
  /\ tpc = "build"
  /\ \E page_id \in TreePages : stack' = <<[node_id |-> page_id, next |-> 1]>>
  /\ descendants' = <<>>
  /\ tpc' = "descendants"
  /\ UNCHANGED <<nodes, adds, current, path>>
  /\ TreeFrame

(* traverse(node_id): for child_id in children: descendants.append(        *)
(* child_id); traverse(child_id).  The innermost call takes its next child *)
(* and calls traverse for it, or returns when it has none left.            *)
TraverseStep ==
  /\ tpc = "descendants"
  /\ IF stack = <<>>
     THEN tpc' = "descendants_returned" /\ UNCHANGED <<stack, descendants>>
     ELSE LET top == stack[Len(stack)]
              kids == IF InNodes(nodes, top.node_id)
                      THEN nodes[top.node_id].children ELSE <<>>
          IN IF top.next > Len(kids)
             THEN /\ stack' = SubSeq(stack, 1, Len(stack) - 1)
                  /\ UNCHANGED <<tpc, descendants>>
             ELSE /\ Len(stack) < MaxWalk
                  /\ descendants' = Append(descendants, kids[top.next])
                  /\ stack' = Append([stack EXCEPT ![Len(stack)].next = @ + 1],
                                     [node_id |-> kids[top.next], next |-> 1])
                  /\ UNCHANGED tpc
  /\ UNCHANGED <<nodes, adds, current, path>>
  /\ TreeFrame

----------------------------------------------------------------------------
(* Specifications *)

\* the controller: queries processed one after the other
Init ==
  /\ QueryIdle /\ RetrieveIdle /\ HybridIdle /\ FeedbackIdle /\ TreeIdle /\ DedupIdle /\ FusionIdle /\ EnrichIdle
  /\ BoostIdle /\ MetricsIdle

Next ==
  \/ ProcessQuery
  \/ ReceiveQuery
  \/ AnalyzeQuery
  \/ HandleClarification
  \/ AtomicRetrieve
  \/ AtomicRerank
  \/ AtomicSynthesize
  \/ AtomicVerify
  \/ AtomicFinish
  \/ ComplexStart
  \/ StartBatch
  \/ SubquestionFinishes
  \/ GatherBatch
  \/ ComplexSynthesize
  \/ ComplexVerify
  \/ ComplexPageTrees
  \/ ComplexVerificationFailure
  \/ ComplexFinish
  \/ GlobalTimeout
  \/ AbandonedSubquestionFinishes
  \/ TimeToLiveElapses
  \/ FallbackSearch
  \/ FallbackPartial
  \/ FallbackGeneric

Spec == Init /\ [][Next]_vars

\* progressive retrieval
InitRetrieve ==
  /\ RetrieveIdle /\ HybridIdle /\ FeedbackIdle /\ TreeIdle /\ DedupIdle /\ FusionIdle /\ QueryIdle /\ EnrichIdle
  /\ BoostIdle /\ MetricsIdle

NextRetrieve ==
  \/ RetrieveStart
  \/ KeywordPhase
  \/ EmbeddingStep
  \/ VectorPhase
  \/ SemanticPhase

SpecRetrieve == InitRetrieve /\ [][NextRetrieve]_vars

\* deduplication of an arbitrary list
InitDedup ==
  /\ RetrieveIdle /\ HybridIdle /\ FeedbackIdle /\ TreeIdle
  /\ FusionIdle
  /\ QueryIdle
  /\ EnrichIdle
  /\ BoostIdle
  /\ MetricsIdle
  /\ dpc = "call"
  /\ dd_results \in DedupInputs
  /\ dd_unique = <<>>

NextDedup == Deduplicate

SpecDedup == InitDedup /\ [][NextDedup]_vars

\* the retriever's search() after its two searches answered
InitFusion ==
  /\ RetrieveIdle /\ HybridIdle /\ FeedbackIdle /\ TreeIdle
  /\ DedupIdle
  /\ QueryIdle
  /\ EnrichIdle
  /\ BoostIdle
  /\ MetricsIdle
  /\ fpc = "searched"
  /\ vector_results \in SearchAnswers
  /\ text_results \in SearchAnswers
  /\ similarity_threshold \in Thresholds
  /\ combined_results = <<>>
  /\ page_contexts = <<>>
  /\ best_context = <<>>
  /\ search_response = <<>>

NextFusion ==
  \/ Combine
  \/ BuildContexts
  \/ SelectBest
  \/ GenerateResponse

SpecFusion == InitFusion /\ [][NextFusion]_vars

\* one enrich_page_context call on some graph, with or without a client
InitEnrich ==
  /\ RetrieveIdle /\ HybridIdle /\ FeedbackIdle /\ TreeIdle
  /\ DedupIdle
  /\ FusionIdle
  /\ QueryIdle
  /\ BoostIdle
  /\ MetricsIdle
  /\ epc = "idle"
  /\ parent \in Graphs
  /\ client \in BOOLEAN
  /\ stats = [queries |-> 0, enriched |-> 0, errors |-> 0]
  /\ data = [page_id |-> 1]
  /\ ancestors = <<>>
  /\ children = <<>>
  /\ siblings = <<>>
  /\ related_pages = <<>>
  /\ lookup_failed = {}
  /\ enriched = <<>>

NextEnrich ==
  \/ EnrichStart
  \/ GetPageAncestors
  \/ GetPageChildren
  \/ GetPageSiblings
  \/ GetRelatedPages
  \/ EnrichBuild

SpecEnrich == InitEnrich /\ [][NextEnrich]_vars

\* the confidence boost on arbitrary arguments
InitBoost ==
  /\ RetrieveIdle /\ HybridIdle /\ FeedbackIdle /\ TreeIdle
  /\ DedupIdle
  /\ FusionIdle
  /\ QueryIdle
  /\ EnrichIdle
  /\ MetricsIdle
  /\ bpc = "call"
  /\ base_confidence \in {0, 10, 50, 84, 90, 100}
  /\ n_ancestors \in 0..MaxNeighbours
  /\ n_children \in 0..MaxNeighbours
  /\ n_related \in 0..MaxNeighbours
  /\ enhanced = 0

NextBoost == CalculateConfidence

SpecBoost == InitBoost /\ [][NextBoost]_vars

\* run_all after the edges were fetched
InitMetrics ==
  /\ RetrieveIdle /\ HybridIdle /\ FeedbackIdle /\ TreeIdle
  /\ DedupIdle
  /\ FusionIdle
  /\ QueryIdle
  /\ EnrichIdle
  /\ BoostIdle
  /\ mpc = "fetched"
  /\ edges \in EdgeLists
  /\ depth_map = <<>>
  /\ child_ids_map = <<>>
  /\ persisted = <<>>
  /\ write_failed = {}
  /\ updates = 0
  /\ batch_size \in BatchSizes
  /\ attempts = <<>>

NextMetrics ==
  \/ ComputeHierarchyMetrics
  \/ PersistMetrics

SpecMetrics == InitMetrics /\ [][NextMetrics]_vars

\* the hybrid retrieval
InitHybrid ==
  /\ RetrieveIdle /\ DedupIdle /\ FusionIdle /\ QueryIdle /\ EnrichIdle
  /\ BoostIdle /\ MetricsIdle /\ HybridIdle /\ FeedbackIdle /\ TreeIdle

NextHybrid ==
  \/ HybridStart
  \/ SearchCompletes
  \/ HybridGather

SpecHybrid == InitHybrid /\ [][NextHybrid]_vars

\* feedback writes of an agent, with and without a configured graph store
InitFeedback ==
  /\ RetrieveIdle /\ DedupIdle /\ FusionIdle /\ QueryIdle /\ EnrichIdle
  /\ BoostIdle /\ MetricsIdle /\ HybridIdle /\ TreeIdle
  /\ gpc = "idle"
  /\ env_set \in BOOLEAN
  /\ client_cached = FALSE
  /\ g_pair = <<Hash(1), Hash(1)>>
  /\ edge_store = {}
  /\ g_warned = FALSE

NextFeedback ==
  \/ OnNewSubquestion
  \/ GetClient
  \/ SubmitEdge

SpecFeedback == InitFeedback /\ [][NextFeedback]_vars

\* a page tree is built and then asked for an ancestry or for descendants
InitTree ==
  /\ RetrieveIdle /\ DedupIdle /\ FusionIdle /\ QueryIdle /\ EnrichIdle
  /\ BoostIdle /\ MetricsIdle /\ HybridIdle /\ FeedbackIdle /\ TreeIdle

NextTree ==
  \/ AddPage
  \/ GetAncestry
  \/ AncestryStep
  \/ GetDescendants
  \/ TraverseStep

SpecTree == InitTree /\ [][NextTree]_vars

----------------------------------------------------------------------------
(* Properties of progressive retrieval *)

MaxScore(s) ==
  IF s = <<>> THEN 0
  ELSE CHOOSE m \in {s[i].score : i \in 1..Len(s)} :
         \A i \in 1..Len(s) : s[i].score <= m

\* distinct hit ids of the keyword and vector results merged together
MergedUnique == Cardinality(IdsOf(kwHits \o vecHits))

(* C3: whenever the keyword phase returned at least 5 hits and the best    *)
(* keyword hit scores above 0.8, the retrieval has returned right after    *)
(* the keyword phase: the keyword search is the only call it issued (no    *)
(* embedding request, no vector search, no semantic search) and it         *)
(* returned the keyword hits.                                              *)
C3_EarlyExitIssuesNoFurtherCall ==
  (Len(kwHits) >= 5 /\ MaxScore(kwHits) > 8)
    => /\ rpc = "returned"
       /\ exitPath = "early"
       /\ issued = {"keyword"}
       /\ returned = Take(kwHits, 10)

C3_Witness ==
  /\ rpc = "returned"
  /\ exitPath = "early"
  /\ Len(kwHits) = 6
  /\ MaxScore(kwHits) = 9

(* C4: when the retrieval returns without the early exit, the semantic     *)
(* search was skipped if and only if the keyword and vector results merged *)
(* together hold at least 10 distinct hit ids.                             *)
C4_SemanticSkippedIffTenUnique ==
  (rpc = "returned" /\ exitPath # "early")
    => (("semantic" \notin issued) <=> (MergedUnique >= 10))

(* C5: the list returned by progressive retrieval holds no two hits with   *)
(* the same id, on the early exit, on the exit after the vector phase and  *)
(* on the exit after the semantic phase.                                   *)
C5_ReturnedHasNoDuplicateIds ==
  (rpc = "returned") => NoDuplicateIds(returned)

C5_Witness ==
  /\ rpc = "returned"
  /\ exitPath = "vector"
  /\ Len(returned) < Len(results)
  /\ Len(returned) >= 2

(* C6: an exception raised by the keyword, vector or semantic search call  *)
(* or by the embedding call never aborts the retrieval: no exception       *)
(* leaves it, and the list it returns is built from the phases that        *)
(* succeeded.                                                              *)
C6_FailedCallNeverAbortsRetrieval ==
  /\ rpc # "raised"
  /\ (rpc = "returned" /\ exitPath = "semantic")
       => returned = Take(DeduplicateResults(kwHits \o vecHits \o semHits), 20)

----------------------------------------------------------------------------
(* Properties of deduplication *)

\* positions of the first occurrence of each id
FirstOccurrencePositions(s) ==
  {i \in 1..Len(s) : \A j \in 1..(i - 1) : s[j].id # s[i].id}

\* out is the subsequence of s at the positions P, in their order
IsSubsequenceAt(out, s, P) ==
  /\ Len(out) = Cardinality(P)
  /\ \A i \in P : out[Cardinality({j \in P : j <= i})] = s[i]

(* C8: for any input hit list, the deduplicated list holds no two hits     *)
(* with the same id, holds every id of the input, and is the subsequence   *)
(* of the input made of the first occurrence of each id.                   *)
C8_DedupKeepsFirstOccurrences ==
  (dpc = "done")
    => /\ NoDuplicateIds(dd_unique)
       /\ IdsOf(dd_unique) = IdsOf(dd_results)
       /\ IsSubsequenceAt(dd_unique, dd_results,
                          FirstOccurrencePositions(dd_results))

\* an id repeated with another score after a different id came in between
C8_Witness ==
  /\ dpc = "done"
  /\ Len(dd_results) = 4
  /\ Len(dd_unique) = 2
  /\ dd_results[1].id = dd_results[3].id
  /\ dd_results[1].score # dd_results[3].score

----------------------------------------------------------------------------
(* Properties of the retriever's fusion and selection *)

(* C7: a chunk returned by the vector search with score a and by the text  *)
(* search with score b, a # b, gets a fused score strictly greater than    *)
(* min(a,b) and strictly less than max(a,b).                               *)
C7_FusedScoreStrictlyBetween ==
  (fpc = "combined")
    => \A i \in 1..Len(combined_results) :
         LET c == combined_results[i].chunk_id
         IN (InAnswer(vector_results, c) /\ InAnswer(text_results, c)
             /\ ScoreIn(vector_results, c) # ScoreIn(text_results, c))
              => /\ combined_results[i].score
                      > Min2(ScoreIn(vector_results, c), ScoreIn(text_results, c))
                 /\ combined_results[i].score
                      < Max2(ScoreIn(vector_results, c), ScoreIn(text_results, c))

\* positions of the contexts that meet the threshold before selection
MeetingThreshold ==
  {i \in 1..Len(page_contexts) :
     RatAtLeast(page_contexts[i].confidence, similarity_threshold)}

(* C9: for a non-empty list of page contexts the selected context is one   *)
(* with the highest confidence among those that meet the threshold; if     *)
(* none meets it, it is a context with the highest confidence of all,      *)
(* reported with min(confidence, 0.5); None is selected only for an empty  *)
(* list.                                                                   *)
C9_SelectBestPolicy ==
  (fpc = "selected")
    => /\ (best_context = <<>>) <=> (page_contexts = <<>>)
       /\ (page_contexts # <<>>) =>
            LET b == best_context[1]
            IN IF MeetingThreshold # {}
               THEN \E i \in MeetingThreshold :
                      /\ b = page_contexts[i]
                      /\ \A j \in MeetingThreshold :
                           RatLeq(page_contexts[j].confidence,
                                  page_contexts[i].confidence)
               ELSE \E i \in 1..Len(page_contexts) :
                      /\ \A j \in 1..Len(page_contexts) :
                           RatLeq(page_contexts[j].confidence,
                                  page_contexts[i].confidence)
                      /\ b.page_id = page_contexts[i].page_id
                      /\ b.chunks = page_contexts[i].chunks
                      /\ ~RatAbove(b.confidence, 500)
                      /\ \/ RatEq(b.confidence, page_contexts[i].confidence)
                         \/ /\ RatEq(b.confidence, [num |-> 500, den |-> 1])
                            /\ RatAbove(page_contexts[i].confidence, 500)

\* two pages meet the threshold with different confidences, the page of
\* the best chunk not being the best page
C9_Witness ==
  /\ fpc = "selected"
  /\ Cardinality(MeetingThreshold) = 2
  /\ ~RatEq(page_contexts[1].confidence, page_contexts[2].confidence)
  /\ combined_results[1].page_id # page_contexts[1].page_id
  /\ best_context = <<page_contexts[1]>>

(* C10: the selected context has a reported confidence above the           *)
(* threshold only if at least one context met the threshold before         *)
(* selection, for every configured threshold.                              *)
C10_FallbackHonesty ==
  (fpc = "selected" /\ best_context # <<>>
   /\ RatAbove(best_context[1].confidence, similarity_threshold))
    => MeetingThreshold # {}

\* no context meets the threshold and the best one is reported at the cap
C10_Witness ==
  /\ fpc = "selected"
  /\ page_contexts # <<>>
  /\ MeetingThreshold = {}
  /\ RatAbove(page_contexts[1].confidence, 500)
  /\ RatEq(best_context[1].confidence, [num |-> 500, den |-> 1])

----------------------------------------------------------------------------
(* Properties of the controller *)

\* the response carries timeout = true
HasTimeoutFlag(r) == "timeout" \in DOMAIN r /\ r.timeout

(* C1: whatever the collaborators do, process_query returns a response to  *)
(* its caller and never raises an exception.                               *)
C1_ProcessQueryNeverRaises == qpc # "raised"

(* C2: when the global timeout fired, process_query ends by returning a    *)
(* response with timeout = true that is the partial answer with            *)
(* confidence <= 0.6 or the generic could-not-complete response; it never  *)
(* ends in an unhandled error.                                             *)
C2_TimeoutAlwaysAnswered ==
  (timedOut /\ qpc \in {"returned", "raised"})
    => /\ qpc = "returned"
       /\ HasTimeoutFlag(response)
       /\ \/ response.status = "partial" /\ response.confidence <= 60
          \/ response.status = "timeout"

----------------------------------------------------------------------------
(* Properties of the retriever's response *)

(* C11: every response returned by the retriever's search reports a       *)
(* confidence between 0 and 1 inclusive, for hit scores in [0,1],          *)
(* including hits that went through fusion and page aggregation.           *)
C11_ResponseConfidenceInUnitInterval ==
  fpc = "responded" =>
    /\ search_response[1].confidence.num >= 0
    /\ search_response[1].confidence.num
         <= 1000 * search_response[1].confidence.den

----------------------------------------------------------------------------
(* Properties of the graph enricher *)

(* C12: whenever one of the four graph lookups fails during an enrich     *)
(* call, the call returns the caller's data unchanged, the error counter   *)
(* has been incremented, and nothing is raised to the caller.              *)
C12_FailedLookupReturnsDataUnchanged ==
  (epc = "returned" /\ lookup_failed # {}) =>
    /\ enriched = <<data>>
    /\ stats.errors >= 1

\* the chain of parents of page p: direct parent first, root last
RECURSIVE ParentChain(_)
ParentChain(p) ==
  IF parent[p] = 0 THEN <<>> ELSE <<parent[p]>> \o ParentChain(parent[p])

(* C13: for a page with a title whose chain of parents is p1 .. pn, the    *)
(* breadcrumb of a successful enrich is the titles of pn .. p1 followed by *)
(* the page's own title exactly once.                                      *)
C13_BreadcrumbRootToLeaf ==
  (/\ epc = "returned"
   /\ "ancestors" \notin lookup_failed
   /\ client
   /\ "title" \in DOMAIN data
   /\ "breadcrumb" \in DOMAIN enriched[1]) =>
    enriched[1].breadcrumb =
      [i \in 1..Len(ParentChain(data.page_id)) |->
         TitleOf(ReverseSeq(ParentChain(data.page_id))[i])]
        \o <<TitleOf(data.page_id)>>

(* C30: a successful enrich of a page with a parent reports the id and     *)
(* the title of the direct parent and as depth the number of the page's    *)
(* ancestors; for a root page it reports no parent id, no parent title and *)
(* depth 0.                                                                *)
C30_ParentFieldsNameDirectParent ==
  (/\ epc = "returned"
   /\ "ancestors" \notin lookup_failed
   /\ client
   /\ "parent_page_id" \in DOMAIN enriched[1]) =>
    LET p == data.page_id
    IN IF parent[p] # 0
       THEN /\ enriched[1].parent_page_id = parent[p]
            /\ enriched[1].parent_page_title = TitleOf(parent[p])
            /\ enriched[1].hierarchy_depth = Len(ParentChain(p))
       ELSE /\ enriched[1].parent_page_id = 0
            /\ enriched[1].parent_page_title = <<>>
            /\ enriched[1].hierarchy_depth = 0

(* C14: for every base confidence in [0,1] and every number of ancestors,  *)
(* children and related pages, the boost factor is at most 1.2 and the     *)
(* boosted confidence is at most 1.0.                                      *)
C14_BoostAndConfidenceCapped ==
  bpc = "done" =>
    /\ BoostFactor(n_ancestors, n_children, n_related) <= 120
    /\ enhanced <= 10000

\* the caps bite: the uncapped factor exceeds 1.2 and base * 1.2 exceeds 1.0
C14_Witness ==
  /\ bpc = "done"
  /\ BoostFactorUncapped(n_ancestors, n_children, n_related) > 120
  /\ base_confidence * 120 > 10000
  /\ enhanced = 10000

----------------------------------------------------------------------------
(* Properties of the graph metrics *)

\* no node reaches itself along the edges
RECURSIVE ReachableFrom(_, _)
ReachableFrom(E, S) ==
  LET next == S \cup {e[2] : e \in {x \in E : x[1] \in S}}
  IN IF next = S THEN S ELSE ReachableFrom(E, next)

Acyclic(es) ==
  \A n \in GraphNodes(es) :
    n \notin ReachableFrom(EdgeSet(es), {e[2] : e \in {x \in EdgeSet(es) : x[1] = n}})

\* length in edges of the longest path from any root to n (acyclic graphs)
RECURSIVE LongestPathTo(_, _)
LongestPathTo(es, n) ==
  LET parents == {e[1] : e \in {x \in EdgeSet(es) : x[2] = n}}
  IN IF parents = {} THEN 0
     ELSE 1 + MaxOf({LongestPathTo(es, p) : p \in parents})

(* C15: for every acyclic set of parent-of edges, also where a node is     *)
(* reachable from a root along paths of different lengths, each node's     *)
(* computed hierarchy depth is the length of the longest path from any     *)
(* root to that node.                                                      *)
C15_DepthIsLongestRootPath ==
  (mpc # "fetched" /\ Acyclic(edges)) =>
    \A n \in GraphNodes(edges) : depth_map[n] = LongestPathTo(edges, n)

(* C16: for every fetched edge list, also one listing the same (parent,    *)
(* child) pair more than once, the child count persisted for node n is     *)
(* the number of distinct children x with an edge (n, x), 0 for a node     *)
(* without outgoing edge.                                                  *)
C16_ChildCountCountsDistinctChildren ==
  mpc = "persisted" =>
    \A n \in DOMAIN persisted :
      persisted[n].child_count =
        Cardinality({e[2] : e \in {x \in EdgeSet(edges) : x[1] = n}})

\* the nodes at the end of a walk of exactly d edges from a node of S
RECURSIVE WalkEnds(_, _, _)
WalkEnds(E, S, d) ==
  IF d = 0 THEN S
  ELSE WalkEnds(E, {e[2] : e \in {x \in E : x[1] \in S}}, d - 1)

\* the roots from which a walk leads to n
RootsReaching(es, n) ==
  {r \in Roots(es) : \E d \in 0..NumNodes : n \in WalkEnds(EdgeSet(es), {r}, d)}

\* the number of edges of a shortest walk from r to n
Distance(es, r, n) ==
  MinOf({d \in 0..NumNodes : n \in WalkEnds(EdgeSet(es), {r}, d)})

(* C22: for every list of parent-of edges, the hierarchy depth of a node   *)
(* is the maximum, over the roots that reach it, of the shortest-path      *)
(* distance from that root, and 0 for a node no root reaches; every root   *)
(* has depth 0 and every depth is a natural number.                        *)
C22_DepthIsMaxShortestRootDistance ==
  mpc = "computed" =>
    /\ DOMAIN depth_map = GraphNodes(edges)
    /\ \A n \in GraphNodes(edges) :
         /\ depth_map[n] \in Nat
         /\ depth_map[n] =
              IF RootsReaching(edges, n) = {} THEN 0
              ELSE MaxOf({Distance(edges, r, n) : r \in RootsReaching(edges, n)})
    /\ \A r \in Roots(edges) : depth_map[r] = 0

\* a node two roots reach at different distances, with the larger as depth
C22_Witness ==
  /\ mpc = "computed"
  /\ \E n \in GraphNodes(edges) :
       \E r1 \in RootsReaching(edges, n), r2 \in RootsReaching(edges, n) :
         /\ Distance(edges, r1, n) < Distance(edges, r2, n)
         /\ depth_map[n] = Distance(edges, r2, n)

(* C23: for every batch size >= 1 and every set of failing writes, exactly *)
(* one write is attempted for each node of the edge list, the writes       *)
(* outside the failing set all succeed, and the count returned is the      *)
(* number of writes that succeeded.                                        *)
C23_EveryNodeWrittenOnce ==
  (mpc = "persisted" /\ batch_size >= 1) =>
    /\ \A n \in GraphNodes(edges) :
         Cardinality({i \in 1..Len(attempts) : attempts[i].pid = n}) = 1
    /\ \A i \in 1..Len(attempts) :
         /\ attempts[i].pid \in GraphNodes(edges)
         /\ attempts[i].ok <=> attempts[i].pid \notin write_failed
    /\ DOMAIN persisted = GraphNodes(edges) \ write_failed
    /\ updates = Cardinality(GraphNodes(edges) \ write_failed)

\* a full batch and a leftover, a failed write first in each of them
C23_Witness ==
  /\ mpc = "persisted"
  /\ batch_size = 2
  /\ Len(attempts) = 3
  /\ ~attempts[1].ok /\ attempts[2].ok
  /\ updates = 1

----------------------------------------------------------------------------
(* Properties of the controller's paths *)

(* C17: on the decomposition path, whatever sub-questions fail, the        *)
(* request is not ended by an exception at the fan-in of a batch,          *)
(* synthesis is invoked at most once, and its input is exactly the         *)
(* results of the sub-questions that succeeded.                            *)
C17_SubquestionFailuresNeverAbort ==
  classification = "NeedsDecomposition" =>
    /\ raised_at # "gather"
    /\ synth_calls <= 1
    /\ synth_calls = 1 =>
         synth_input = IndexList({k \in SubIndexes : tasks[k] = "ok"})

(* C18 as stated: a query classified NeedsClarification has no             *)
(* search-index, embedding or rerank call issued for it.                   *)
C18_ClarificationIssuesNoRetrievalCall ==
  classification = "NeedsClarification" => calls = {}

(* C18, amended: a query classified NeedsClarification has no search,      *)
(* embedding or rerank call issued for it unless the global deadline       *)
(* fires, and then only the fallback's keyword search; the response its    *)
(* flow returns before the deadline is a clarification response.           *)
C18_ClarificationRetrievesOnlyInFallback ==
  classification = "NeedsClarification" =>
    /\ ~timedOut => calls = {}
    /\ timedOut => calls \subseteq {"search"}
    /\ (qpc = "returned" /\ ~timedOut) =>
         response.status = "needs_clarification"

C18_Witness ==
  /\ qpc = "returned"
  /\ classification = "NeedsClarification"
  /\ ~timedOut
  /\ response.status = "needs_clarification"
  /\ calls = {}

(* C19: whenever verification reports risk for a synthesized answer, on    *)
(* the atomic as on the decomposition path, exactly one verification-      *)
(* failure pass is performed and the returned answer is its outcome, not   *)
(* the answer as first synthesized.                                        *)
C19_RiskyAnswerIsReplacedOnce ==
  (/\ qpc = "returned"
   /\ ~timedOut
   /\ classification \in {"Atomic", "NeedsDecomposition"}
   /\ verification.risk) =>
    /\ failure_passes = 1
    /\ response.answer = "verification_fallback"

(* C20: every entry of the response cache is a successful full response:   *)
(* no clarification response and no timeout response is ever stored.       *)
C20_CacheHoldsOnlyFullResponses ==
  \A k \in CacheKeys :
    response_cache[k] # NoResponse =>
      /\ response_cache[k].status = "success"
      /\ ~HasTimeoutFlag(response_cache[k])

(* C21: a cached response is not served once its time-to-live has elapsed: *)
(* a query with the same normalized text arriving after expiry is          *)
(* processed afresh.                                                       *)
C21_ExpiredEntryNotServed == ~served_expired

\* the sub-question pipelines in flight
InFlight == {k \in SubIndexes : tasks[k] = "running"}

(* C24: on the decomposition path at most 3 sub-question pipelines of a    *)
(* request are in flight at any moment, and a sub-question of a later      *)
(* batch is in flight only when every sub-question of the batches before   *)
(* it has finished, successfully or not.                                   *)
C24_AtMostOneBatchInFlight ==
  /\ Cardinality(InFlight) <= 3
  /\ \A k \in InFlight : \A j \in SubIndexes :
       (j \div BatchSize) < (k \div BatchSize) => tasks[j] \in {"ok", "failed"}

\* a pipeline of the second batch in flight after a failure in the first
C24_Witness ==
  /\ \E k \in InFlight : k >= BatchSize
  /\ \E j \in SubIndexes : j < BatchSize /\ tasks[j] = "failed"
  /\ \E j \in SubIndexes : j < BatchSize /\ tasks[j] = "ok"

(* C25: from the moment the global deadline has fired for a query, the     *)
(* response cache is not written and the response returned to the caller   *)
(* is one of the fallback path, whatever the abandoned pipeline and its    *)
(* tasks still produce.                                                    *)
C25_DeadlineDiscardsPipeline ==
  [][timedOut' =>
       /\ response_cache' = response_cache
       /\ qpc' = "returned" =>
            /\ HasTimeoutFlag(response')
            /\ response'.answer \in {"partial", "generic"}]_vars

\* a fallback response was returned and an abandoned task succeeded later
C25_Witness ==
  /\ timedOut
  /\ qpc = "returned"
  /\ \E k \in late_results : tasks[k] = "ok"

(* C29: whatever the number of sub-questions of a query, at most           *)
(* MAX_SUBQUESTIONS of them are processed.                                 *)
C29_AtMostMaxSubquestionsProcessed ==
  Cardinality({k \in SubIndexes : tasks[k] # "none"}) <= MAX_SUBQUESTIONS

----------------------------------------------------------------------------
(* Properties of the hybrid retrieval *)

\* what a search call contributed: nothing when it failed or was not issued
HitsOf(name) == IF h_outcome[name].failed THEN <<>> ELSE h_outcome[name].hits

(* C26: on the hybrid path the returned list is determined by the answers  *)
(* of the three searches alone, whatever the order in which they           *)
(* completed: it is the deduplicated concatenation of the vector, keyword  *)
(* and semantic answers; a call that failed contributes nothing and every  *)
(* document of a call that succeeded is in the list.                       *)
C26_MergeIndependentOfCompletionOrder ==
  hpc = "returned" =>
    /\ h_returned =
         Take(DeduplicateResults(HitsOf("vector") \o HitsOf("keyword")
                                 \o HitsOf("semantic")),
              MaxSearchResults)
    /\ \A name \in SearchNames : IdsOf(HitsOf(name)) \subseteq IdsOf(h_returned)

\* the semantic call completed first and the vector call last, the keyword
\* call failed, and the two answers share a document
C26_Witness ==
  /\ hpc = "returned"
  /\ h_done = <<"semantic", "keyword", "vector">>
  /\ h_outcome["keyword"].failed
  /\ IdsOf(HitsOf("vector")) \cap IdsOf(HitsOf("semantic")) # {}

----------------------------------------------------------------------------
(* Properties of the feedback writes *)

(* C27: a feedback edge write never raises to its caller, whatever goes    *)
(* wrong: graph client not configured, graph store unreachable, write      *)
(* rejected.                                                               *)
C27_UpsertEdgeNeverRaises == gpc # "raised"

----------------------------------------------------------------------------
(* Properties of the page tree *)

(* C28: an ancestry path and a descendant walk never follow a cycle: the   *)
(* path holds each stored page at most once and the nesting of the walk is *)
(* at most the number of stored pages below the page asked for.            *)
C28_WalksNeverFollowACycle ==
  /\ Len(path) <= Cardinality(StoredPages(nodes))
  /\ Len(stack) <= Cardinality(StoredPages(nodes)) + 1

====
